---- MODULE Spec2Model ----
(***************************************************************************)
(* Booking ledger and availability store of the WrenchEX backend.          *)
(*                                                                         *)
(* AppointmentService (createAppointment, updateAppointmentStatus,         *)
(* cancelAppointment, checkTimeSlotAvailability, getAppointmentById) and   *)
(* AvailabilityService (addTimeOff, removeTimeOff) over the relational     *)
(* tables appointments, appointment_status_history and seller_time_off.    *)
(*                                                                         *)
(* Instants are JavaScript Date values: milliseconds, counted here from    *)
(* 00:00 of day 0 of the model.  A row's id is its position in its table.  *)
(***************************************************************************)
EXTENDS Integers, Sequences, FiniteSets, TLC

VARIABLES
    appointments,   \* table appointments, in insertion order
    statusHistory,  \* table appointment_status_history: per appointment id, its rows
                    \* in insertion order (the order of changedAt)
    sellerTimeOff,  \* table seller_time_off, in insertion order
    transitions,    \* per appointment id: status updates that returned successfully
    last,           \* the call that completed last, with its outcome
    calls,          \* per concurrent request: where it stands between two awaits
    sellerAvailability, \* table seller_availability, by <<sellerId, dayOfWeek>>
    weekly,         \* the setWeeklyAvailability call in flight: its upserts not yet settled
    messages,       \* table product_messages, in insertion order
    categories,     \* table categories, in insertion order
    sockets,        \* per socket of the chat server: its connection and its handlers
    sellerChatSettings  \* table seller_chat_settings, by seller id

vars == <<appointments, statusHistory, sellerTimeOff, transitions, last, calls,
          sellerAvailability, weekly, messages, categories, sockets,
          sellerChatSettings>>

(***************************************************************************)
(* Bounds of the model                                                     *)
(***************************************************************************)
MaxAppointments == 2
MaxTimeOff == 2
MaxCalls == 3
MaxBooked == 1
MaxSockets == 2
MaxCategories == 3

(***************************************************************************)
(* Time                                                                    *)
(***************************************************************************)
MsPerMinute == 60000

Hm(d, h, m) == (((d * 24) + h) * 60 + m) * MsPerMinute

MsPerDay == Hm(1, 0, 0)

\* local midnight of the day an instant falls on
DayStart(t) == t - (t % MsPerDay)

(***************************************************************************)
(* Catalog: users, sellers and services.  No operation modelled here       *)
(* writes these tables.                                                    *)
(***************************************************************************)
Users == {"buyer1", "sellerUserA", "sellerUserC", "admin1"}

\* seller id -> isApproved
Sellers == [A |-> TRUE, B |-> FALSE, C |-> TRUE]

\* service id -> row of table services
Services ==
    [ s60  |-> [sellerId |-> "A", durationMinutes |-> 60, isActive |-> TRUE],
      sC   |-> [sellerId |-> "C", durationMinutes |-> 30, isActive |-> TRUE],
      sOff |-> [sellerId |-> "A", durationMinutes |-> 30, isActive |-> FALSE],
      sB   |-> [sellerId |-> "B", durationMinutes |-> 30, isActive |-> TRUE] ]

(***************************************************************************)
(* AppointmentStatus and the transition table                              *)
(***************************************************************************)
AppointmentStatus == {"PENDING", "CONFIRMED", "IN_PROGRESS", "COMPLETED", "CANCELLED"}

\* as validTransitions, but a completed appointment may still be cancelled
validTransitionsReopen ==
    [ PENDING     |-> {"CONFIRMED", "CANCELLED"},
      CONFIRMED   |-> {"IN_PROGRESS", "CANCELLED"},
      IN_PROGRESS |-> {"COMPLETED", "CANCELLED"},
      COMPLETED   |-> {"CANCELLED"},
      CANCELLED   |-> {} ]

validTransitions ==
    [ PENDING     |-> {"CONFIRMED", "CANCELLED"},
      CONFIRMED   |-> {"IN_PROGRESS", "CANCELLED"},
      IN_PROGRESS |-> {"COMPLETED", "CANCELLED"},
      COMPLETED   |-> {},
      CANCELLED   |-> {} ]

\* the status filter of the conflict queries
BlockingStatuses == {"PENDING", "CONFIRMED", "IN_PROGRESS"}

(***************************************************************************)
(* Rows and results                                                        *)
(***************************************************************************)
RECURSIVE Reverse(_)
Reverse(s) == IF s = <<>> THEN <<>> ELSE Append(Reverse(Tail(s)), Head(s))

NoError == [message |-> "", from |-> "", to |-> ""]

Error(message) == [message |-> message, from |-> "", to |-> ""]

\* `Cannot change status from ${appointment.status} to ${newStatus}`
StatusError(from, to) == [message |-> "Cannot change status", from |-> from, to |-> to]

\* what a call hands back: the tables as it leaves them, and its return value or error
Outcome(appts, hist, ok, error, data) ==
    [appointments |-> appts, statusHistory |-> hist, ok |-> ok, error |-> error, data |-> data]

(***************************************************************************)
(* AppointmentService                                                      *)
(***************************************************************************)
\* as SlotQuery, but the status filter leaves IN_PROGRESS out
SlotQueryNoInProgress(row, sellerId, startTime, endTime) ==
    /\ row.sellerId = sellerId
    /\ row.status \in {"PENDING", "CONFIRMED"}
    /\ \/ (row.scheduledTimeStart <= startTime /\ row.scheduledTimeEnd > startTime)
       \/ (row.scheduledTimeStart < endTime /\ row.scheduledTimeEnd >= endTime)
       \/ (row.scheduledTimeStart >= startTime /\ row.scheduledTimeEnd <= endTime)

\* as SlotQuery, but without the status filter: every appointment of the seller counts
SlotQueryAnyStatus(row, sellerId, startTime, endTime) ==
    /\ row.sellerId = sellerId
    /\ \/ (row.scheduledTimeStart <= startTime /\ row.scheduledTimeEnd > startTime)
       \/ (row.scheduledTimeStart < endTime /\ row.scheduledTimeEnd >= endTime)
       \/ (row.scheduledTimeStart >= startTime /\ row.scheduledTimeEnd <= endTime)

\* the where clause of the overlap query, on one appointment row
SlotQuery(row, sellerId, startTime, endTime) ==
    /\ row.sellerId = sellerId
    /\ row.status \in BlockingStatuses
    /\ \/ (row.scheduledTimeStart <= startTime /\ row.scheduledTimeEnd > startTime)
       \/ (row.scheduledTimeStart < endTime /\ row.scheduledTimeEnd >= endTime)
       \/ (row.scheduledTimeStart >= startTime /\ row.scheduledTimeEnd <= endTime)

checkTimeSlotAvailability(appts, sellerId, startTime, endTime) ==
    LET overlappingAppointments ==
            Cardinality({i \in DOMAIN appts : SlotQuery(appts[i], sellerId, startTime, endTime)})
    IN  overlappingAppointments = 0

\* rows of one appointment, newest first (orderBy changedAt desc)
HistoryOf(hist, appointmentId) == Reverse(hist[appointmentId])

\* appointmentStatusHistory.create
InsertHistory(hist, row) ==
    IF row.appointmentId \in DOMAIN hist
    THEN [hist EXCEPT ![row.appointmentId] = Append(@, row)]
    ELSE Append(hist, <<row>>)

getAppointmentById(appts, hist, appointmentId) ==
    IF appointmentId \notin DOMAIN appts
    THEN Outcome(appts, hist, FALSE, Error("Appointment not found"), <<>>)
    ELSE Outcome(appts, hist, TRUE, NoError,
                 << [ id            |-> appointmentId,
                      buyerId       |-> appts[appointmentId].buyerId,
                      sellerId      |-> appts[appointmentId].sellerId,
                      serviceId     |-> appts[appointmentId].serviceId,
                      status        |-> appts[appointmentId].status,
                      statusHistory |-> HistoryOf(hist, appointmentId) ] >>)

\* as createChecks, but a window longer than the service's duration is let through
createChecksLongWindow(appts, data) ==
    IF data.serviceId \notin DOMAIN Services \/ ~Services[data.serviceId].isActive
    THEN Error("Service not found or is inactive")
    ELSE LET service == Services[data.serviceId]
             expectedEndTime == data.scheduledTimeStart + service.durationMinutes * MsPerMinute
         IN  IF ~Sellers[service.sellerId]
             THEN Error("This seller is not approved to take appointments")
             ELSE IF data.scheduledTimeEnd < expectedEndTime
             THEN Error("Appointment duration must match the service")
             ELSE IF ~checkTimeSlotAvailability(appts, service.sellerId,
                                                data.scheduledTimeStart, data.scheduledTimeEnd)
             THEN Error("The selected time slot is not available")
             ELSE NoError

\* createAppointment up to the transaction: the error thrown, or NoError
createChecks(appts, data) ==
    IF data.serviceId \notin DOMAIN Services \/ ~Services[data.serviceId].isActive
    THEN Error("Service not found or is inactive")
    ELSE LET service == Services[data.serviceId]
             expectedEndTime == data.scheduledTimeStart + service.durationMinutes * MsPerMinute
         IN  IF ~Sellers[service.sellerId]
             THEN Error("This seller is not approved to take appointments")
             ELSE IF data.scheduledTimeEnd # expectedEndTime
             THEN Error("Appointment duration must match the service")
             ELSE IF ~checkTimeSlotAvailability(appts, service.sellerId,
                                                data.scheduledTimeStart, data.scheduledTimeEnd)
             THEN Error("The selected time slot is not available")
             ELSE NoError

\* as createTransaction, but the history row names the seller as the one who changed
createTransactionBySeller(appts, hist, buyerId, data) ==
    IF buyerId \notin Users
    THEN Outcome(appts, hist, FALSE, Error("Foreign key constraint failed"), <<>>)
    ELSE LET newAppointment ==
                 [ buyerId            |-> buyerId,
                   sellerId           |-> Services[data.serviceId].sellerId,
                   serviceId          |-> data.serviceId,
                   scheduledDate      |-> data.scheduledDate,
                   scheduledTimeStart |-> data.scheduledTimeStart,
                   scheduledTimeEnd   |-> data.scheduledTimeEnd,
                   status             |-> "PENDING" ]
             id == Len(appts) + 1
             row == [ appointmentId |-> id, status |-> "PENDING",
                      notes |-> "Appointment created",
                      changedBy |-> Services[data.serviceId].sellerId ]
         IN  Outcome(Append(appts, newAppointment), InsertHistory(hist, row), TRUE, NoError, <<id>>)

\* the transaction of createAppointment: both inserts, or neither
createTransaction(appts, hist, buyerId, data) ==
    IF buyerId \notin Users
    THEN Outcome(appts, hist, FALSE, Error("Foreign key constraint failed"), <<>>)
    ELSE LET newAppointment ==
                 [ buyerId            |-> buyerId,
                   sellerId           |-> Services[data.serviceId].sellerId,
                   serviceId          |-> data.serviceId,
                   scheduledDate      |-> data.scheduledDate,
                   scheduledTimeStart |-> data.scheduledTimeStart,
                   scheduledTimeEnd   |-> data.scheduledTimeEnd,
                   status             |-> "PENDING" ]
             id == Len(appts) + 1
             row == [ appointmentId |-> id, status |-> "PENDING",
                      notes |-> "Appointment created", changedBy |-> buyerId ]
         IN  Outcome(Append(appts, newAppointment), InsertHistory(hist, row), TRUE, NoError, <<id>>)

\* as createAppointment, but the transaction runs before the checks are looked at
createAppointmentWriteFirst(appts, hist, buyerId, data) ==
    LET failed == createChecks(appts, data)
        known == data.serviceId \in DOMAIN Services
        tx == IF known THEN createTransaction(appts, hist, buyerId, data)
                       ELSE Outcome(appts, hist, FALSE, failed, <<>>)
    IN  IF ~tx.ok THEN tx
        ELSE IF failed # NoError
        THEN Outcome(tx.appointments, tx.statusHistory, FALSE, failed, <<>>)
        ELSE getAppointmentById(tx.appointments, tx.statusHistory, tx.data[1])

createAppointment(appts, hist, buyerId, data) ==
    LET failed == createChecks(appts, data)
        tx == createTransaction(appts, hist, buyerId, data)
    IN  IF failed # NoError THEN Outcome(appts, hist, FALSE, failed, <<>>)
        ELSE IF ~tx.ok THEN tx
        ELSE getAppointmentById(tx.appointments, tx.statusHistory, tx.data[1])

\* updateAppointmentStatus up to the transaction, on the row it read
updateChecks(appts, appointmentId, newStatus) ==
    IF appointmentId \notin DOMAIN appts
    THEN Error("Appointment not found")
    ELSE IF newStatus \notin validTransitions[appts[appointmentId].status]
    THEN StatusError(appts[appointmentId].status, newStatus)
    ELSE NoError

\* as updateTransaction, but the two writes are not one unit: when the history insert
\* fails the update stays
updateTransactionNoRollback(appts, hist, appointmentId, newStatus, changedBy, notes) ==
    IF changedBy \notin Users
    THEN Outcome([appts EXCEPT ![appointmentId].status = newStatus], hist, FALSE,
                 Error("Foreign key constraint failed"), <<>>)
    ELSE LET row == [ appointmentId |-> appointmentId, status |-> newStatus,
                      notes |-> notes, changedBy |-> changedBy ]
         IN  Outcome([appts EXCEPT ![appointmentId].status = newStatus],
                     InsertHistory(hist, row), TRUE, NoError, <<>>)

\* the transaction of updateAppointmentStatus: the update and the insert, or neither
updateTransaction(appts, hist, appointmentId, newStatus, changedBy, notes) ==
    IF changedBy \notin Users
    THEN Outcome(appts, hist, FALSE, Error("Foreign key constraint failed"), <<>>)
    ELSE LET row == [ appointmentId |-> appointmentId, status |-> newStatus,
                      notes |-> notes, changedBy |-> changedBy ]
         IN  Outcome([appts EXCEPT ![appointmentId].status = newStatus],
                     InsertHistory(hist, row), TRUE, NoError, <<>>)

updateAppointmentStatus(appts, hist, appointmentId, newStatus, changedBy, notes) ==
    LET failed == updateChecks(appts, appointmentId, newStatus)
        tx == updateTransaction(appts, hist, appointmentId, newStatus, changedBy, notes)
    IN  IF failed # NoError THEN Outcome(appts, hist, FALSE, failed, <<>>)
        ELSE IF ~tx.ok THEN tx
        ELSE getAppointmentById(tx.appointments, tx.statusHistory, appointmentId)

\* reason ? `Cancelled: ${reason}` : 'Appointment cancelled'
CancelNotes(reason) == IF reason = "" THEN "Appointment cancelled" ELSE "Cancelled: " \o reason

cancelAppointment(appts, hist, appointmentId, cancelledBy, reason) ==
    updateAppointmentStatus(appts, hist, appointmentId, "CANCELLED", cancelledBy,
                            CancelNotes(reason))

(***************************************************************************)
(* AvailabilityService: time off                                           *)
(***************************************************************************)
\* the overlapping-time-off query without its isActive filter
TimeOffQueryAnyRow(row, sellerId, startDate, endDate) ==
    /\ row.sellerId = sellerId
    /\ \/ (row.startDate <= startDate /\ row.endDate > startDate)
       \/ (row.startDate < endDate /\ row.endDate >= endDate)
       \/ (row.startDate >= startDate /\ row.endDate <= endDate)

\* the where clause of the overlapping-time-off query, on one time-off row
TimeOffQuery(row, sellerId, startDate, endDate) ==
    /\ row.sellerId = sellerId
    /\ row.isActive
    /\ \/ (row.startDate <= startDate /\ row.endDate > startDate)
       \/ (row.startDate < endDate /\ row.endDate >= endDate)
       \/ (row.startDate >= startDate /\ row.endDate <= endDate)

\* the where clause of the appointments-during-time-off query, on one appointment row
DuringTimeOffQuery(row, sellerId, startDate, endDate) ==
    /\ row.sellerId = sellerId
    /\ row.status \in {"PENDING", "CONFIRMED"}
    /\ row.scheduledDate >= startDate
    /\ row.scheduledDate <= endDate

\* the time-off table as the call leaves it, and its error or NoError
addTimeOff(timeOff, appts, sellerId, startDate, endDate) ==
    LET overlapping ==
            {i \in DOMAIN timeOff : TimeOffQuery(timeOff[i], sellerId, startDate, endDate)}
        appointmentsDuringTimeOff ==
            Cardinality({i \in DOMAIN appts :
                            DuringTimeOffQuery(appts[i], sellerId, startDate, endDate)})
    IN  IF overlapping # {}
        THEN [sellerTimeOff |-> timeOff,
              error |-> Error("Time off period overlaps with existing time off")]
        ELSE IF appointmentsDuringTimeOff > 0
        THEN [sellerTimeOff |-> timeOff,
              error |-> Error("Cannot add time off when there are pending or confirmed appointments during this period")]
        ELSE [sellerTimeOff |-> Append(timeOff, [ sellerId |-> sellerId, startDate |-> startDate,
                                                  endDate |-> endDate, isActive |-> TRUE ]),
              error |-> NoError]

removeTimeOff(timeOff, timeOffId, sellerId) ==
    IF timeOffId \notin DOMAIN timeOff \/ timeOff[timeOffId].sellerId # sellerId
    THEN [sellerTimeOff |-> timeOff,
          error |-> Error("Time off not found or you do not have permission to remove it")]
    ELSE [sellerTimeOff |-> [timeOff EXCEPT ![timeOffId].isActive = FALSE],
          error |-> NoError]

(***************************************************************************)
(* Dates and "HH:MM" strings.  A string is the sequence of its characters: *)
(* a digit is its value, ':' is Colon, which sorts after every digit as    *)
(* its code unit does.  Local time, no daylight saving.                    *)
(***************************************************************************)
Colon == 10

\* weekday of day 0 of the model (0 = Sunday)
FirstDay == 1

MsPerHour == Hm(0, 1, 0)

\* Date.prototype.getDay
getDay(t) == ((t \div MsPerDay) + FirstDay) % 7

getHours(t) == (t % MsPerDay) \div MsPerHour

getMinutes(t) == (t % MsPerHour) \div MsPerMinute

\* d.setHours(h, m, 0, 0)
setHours(t, h, m) == DayStart(t) + Hm(0, h, m)

\* d.setMinutes(m): hours, seconds and milliseconds stay; m = 60 carries into the hour
setMinutes(t, m) == t - getMinutes(t) * MsPerMinute + m * MsPerMinute

\* Math.ceil(x / 30) * 30
CeilTo30(x) == ((x + 29) \div 30) * 30

\* d.toTimeString().slice(0, 5)
toTimeString(t) ==
    <<getHours(t) \div 10, getHours(t) % 10, Colon, getMinutes(t) \div 10, getMinutes(t) % 10>>

\* a < b on strings: by code units, a proper prefix first
RECURSIVE StrLess(_, _)
StrLess(a, b) ==
    IF b = <<>> THEN FALSE
    ELSE IF a = <<>> THEN TRUE
    ELSE IF Head(a) # Head(b) THEN Head(a) < Head(b)
    ELSE StrLess(Tail(a), Tail(b))

\* Number(digits)
RECURSIVE Number(_)
Number(digits) ==
    IF digits = <<>> THEN 0
    ELSE Number(SubSeq(digits, 1, Len(digits) - 1)) * 10 + digits[Len(digits)]

\* str.split(':').map(Number), for a string with one ':'
SplitTime(str) ==
    LET c == CHOOSE i \in DOMAIN str : str[i] = Colon
    IN  <<Number(SubSeq(str, 1, c - 1)), Number(SubSeq(str, c + 1, Len(str)))>>

(***************************************************************************)
(* AvailabilityService: weekly availability and the slot search.  The      *)
(* seller_availability table is a function from the keys <<sellerId,       *)
(* dayOfWeek>> of its rows (the unique index) to the rows.                 *)
(***************************************************************************)
\* prisma.sellerAvailability.upsert
setSellerAvailability(avail, sellerId, dayOfWeek, startTime, endTime, isAvailable) ==
    [k \in DOMAIN avail \cup {<<sellerId, dayOfWeek>>} |->
        IF k = <<sellerId, dayOfWeek>>
        THEN [startTime |-> startTime, endTime |-> endTime, isAvailable |-> isAvailable]
        ELSE avail[k]]

\* the where clause of the time-off query of isSellerAvailable, on one time-off row
AvailableTimeOffQuery(row, sellerId, date) ==
    /\ row.sellerId = sellerId
    /\ row.isActive
    /\ row.startDate <= date
    /\ row.endDate >= date

\* the appointment count of isSellerAvailable with gte in place of gt in its first clause
AvailableQueryTouching(row, sellerId, startTime, endTime) ==
    /\ row.sellerId = sellerId
    /\ row.status \in {"PENDING", "CONFIRMED", "IN_PROGRESS"}
    /\ \/ (row.scheduledTimeStart <= startTime /\ row.scheduledTimeEnd >= startTime)
       \/ (row.scheduledTimeStart < endTime /\ row.scheduledTimeEnd >= endTime)
       \/ (row.scheduledTimeStart >= startTime /\ row.scheduledTimeEnd <= endTime)

\* the where clause of the appointment count of isSellerAvailable, on one appointment row
AvailableQuery(row, sellerId, startTime, endTime) ==
    /\ row.sellerId = sellerId
    /\ row.status \in {"PENDING", "CONFIRMED", "IN_PROGRESS"}
    /\ \/ (row.scheduledTimeStart <= startTime /\ row.scheduledTimeEnd > startTime)
       \/ (row.scheduledTimeStart < endTime /\ row.scheduledTimeEnd >= endTime)
       \/ (row.scheduledTimeStart >= startTime /\ row.scheduledTimeEnd <= endTime)

Unavailable(reason) == [available |-> FALSE, reason |-> reason]

isSellerAvailable(avail, timeOff, appts, sellerId, date, startTime, endTime) ==
    LET key == <<sellerId, getDay(date)>>
        timeString == toTimeString(startTime)
        overlappingAppointments ==
            Cardinality({i \in DOMAIN appts : AvailableQuery(appts[i], sellerId, startTime, endTime)})
    IN  IF key \notin DOMAIN avail \/ ~avail[key].isAvailable
        THEN Unavailable("Seller not available on this day")
        ELSE IF StrLess(timeString, avail[key].startTime) \/ ~StrLess(timeString, avail[key].endTime)
        THEN Unavailable("Time is outside seller's available hours")
        ELSE IF \E i \in DOMAIN timeOff : AvailableTimeOffQuery(timeOff[i], sellerId, date)
        THEN Unavailable("Seller is on time off during this period")
        ELSE IF overlappingAppointments > 0
        THEN Unavailable("Time slot is already booked")
        ELSE [available |-> TRUE, reason |-> ""]

NoSlot == [found |-> FALSE, date |-> 0, startTime |-> 0, endTime |-> 0]

\* the inner while loop of getNextAvailableSlot: probes of one day, 30 minutes apart
RECURSIVE ProbeSlots(_, _, _, _, _, _, _)
ProbeSlots(avail, timeOff, appts, service, currentDate, slotStart, dayEnd) ==
    IF ~(slotStart < dayEnd) THEN NoSlot
    ELSE LET slotEnd == slotStart + service.durationMinutes * MsPerMinute
         IN  IF /\ slotEnd <= dayEnd
                /\ isSellerAvailable(avail, timeOff, appts, service.sellerId,
                                     currentDate, slotStart, slotEnd).available
             THEN [found |-> TRUE, date |-> currentDate, startTime |-> slotStart, endTime |-> slotEnd]
             ELSE ProbeSlots(avail, timeOff, appts, service, currentDate,
                             slotStart + 30 * MsPerMinute, dayEnd)

\* the where clause of the time-off query of getNextAvailableSlot, on one time-off row
DayTimeOffQuery(row, sellerId, currentDate) ==
    /\ row.sellerId = sellerId
    /\ row.isActive
    /\ row.startDate <= currentDate
    /\ row.endDate >= currentDate

\* the outer while loop of getNextAvailableSlot: one day after the other up to endDate
RECURSIVE ScanDays(_, _, _, _, _, _, _)
ScanDays(avail, timeOff, appts, service, currentDate, endDate, now) ==
    IF ~(currentDate <= endDate) THEN NoSlot
    ELSE LET key == <<service.sellerId, getDay(currentDate)>>
             open == /\ key \in DOMAIN avail
                     /\ avail[key].isAvailable
                     /\ ~\E i \in DOMAIN timeOff :
                            DayTimeOffQuery(timeOff[i], service.sellerId, currentDate)
             from == SplitTime(avail[key].startTime)
             to == SplitTime(avail[key].endTime)
             windowStart == setHours(currentDate, from[1], from[2])
             dayEnd == setHours(currentDate, to[1], to[2])
             slotStart == IF DayStart(currentDate) = DayStart(now) /\ windowStart < now
                          THEN setMinutes(now, CeilTo30(getMinutes(now)))
                          ELSE windowStart
             slot == IF open
                     THEN ProbeSlots(avail, timeOff, appts, service, currentDate, slotStart, dayEnd)
                     ELSE NoSlot
         IN  IF slot.found THEN slot
             ELSE ScanDays(avail, timeOff, appts, service, currentDate + MsPerDay, endDate, now)

\* its error or NoError, and the slot it returns (NoSlot for null)
getNextAvailableSlot(avail, timeOff, appts, serviceId, fromDate, daysAhead, now) ==
    IF serviceId \notin DOMAIN Services
    THEN [error |-> Error("Service not found"), data |-> NoSlot]
    ELSE [error |-> NoError,
          data |-> ScanDays(avail, timeOff, appts, Services[serviceId], DayStart(fromDate),
                            fromDate + daysAhead * MsPerDay, now)]

(***************************************************************************)
(* AppointmentService: the day grid                                        *)
(***************************************************************************)
\* getSellerAvailabilityForDay answering with a 09:00-12:00 row where the seller has none
getSellerAvailabilityForDayDefault(avail, sellerId, dayOfWeek) ==
    IF <<sellerId, dayOfWeek>> \notin DOMAIN avail
    THEN <<[startTime |-> <<0, 9, Colon, 0, 0>>, endTime |-> <<1, 2, Colon, 0, 0>>,
            isAvailable |-> TRUE]>>
    ELSE IF avail[<<sellerId, dayOfWeek>>].isAvailable
    THEN <<avail[<<sellerId, dayOfWeek>>]>>
    ELSE <<>>

\* the rows of the seller's weekday that are available, by startTime; the unique index
\* leaves at most one
getSellerAvailabilityForDay(avail, sellerId, dayOfWeek) ==
    IF <<sellerId, dayOfWeek>> \in DOMAIN avail /\ avail[<<sellerId, dayOfWeek>>].isAvailable
    THEN <<avail[<<sellerId, dayOfWeek>>]>>
    ELSE <<>>

\* the while loop of getAvailableTimeSlots over one availability row, for a step above zero
RECURSIVE GridSlots(_, _, _, _, _)
GridSlots(appts, service, currentTime, endTime, stepMs) ==
    IF ~(currentTime < endTime) THEN <<>>
    ELSE LET slotEnd == currentTime + service.durationMinutes * MsPerMinute
             entry == [startTime |-> toTimeString(currentTime),
                       endTime |-> toTimeString(slotEnd),
                       isAvailable |-> checkTimeSlotAvailability(appts, service.sellerId,
                                                                 currentTime, slotEnd)]
             rest == GridSlots(appts, service, currentTime + stepMs, endTime, stepMs)
         IN  IF slotEnd <= endTime THEN <<entry>> \o rest ELSE rest

\* its error or NoError, whether it returns at all, and the list it returns
getAvailableTimeSlots(avail, appts, serviceId, date, intervalMinutes) ==
    IF serviceId \notin DOMAIN Services
    THEN [error |-> Error("Service not found"), returns |-> TRUE, data |-> <<>>]
    ELSE LET service == Services[serviceId]
             availability == getSellerAvailabilityForDay(avail, service.sellerId, getDay(date))
             from == SplitTime(availability[1].startTime)
             to == SplitTime(availability[1].endTime)
             currentTime == setHours(date, from[1], from[2])
             endTime == setHours(date, to[1], to[2])
         IN  IF Len(availability) = 0
             THEN [error |-> NoError, returns |-> TRUE, data |-> <<>>]
             ELSE IF currentTime < endTime /\ ~(intervalMinutes * MsPerMinute > 0)
             \* currentTime never gets nearer to endTime: the loop has no last turn
             THEN [error |-> NoError, returns |-> FALSE, data |-> <<>>]
             ELSE [error |-> NoError, returns |-> TRUE,
                   data |-> GridSlots(appts, service, currentTime, endTime,
                                      intervalMinutes * MsPerMinute)]

(***************************************************************************)
(* AppointmentService.createAppointment and the seller's hours             *)
(***************************************************************************)
\* AppointmentService.isTimeWithinAvailability: string comparison of "HH:MM"
isTimeWithinAvailability(timeString, availability) ==
    /\ Len(availability) # 0
    /\ \E k \in DOMAIN availability :
          /\ ~StrLess(timeString, availability[k].startTime)
          /\ StrLess(timeString, availability[k].endTime)

\* as sellerAvailabilityCheck, but with the throw that the source has commented out
sellerAvailabilityCheckEnforced(avail, data) ==
    LET service == Services[data.serviceId]
        dayOfWeek == getDay(data.scheduledTimeStart)
        timeString == toTimeString(data.scheduledTimeStart)
        dayRows == getSellerAvailabilityForDay(avail, service.sellerId, dayOfWeek)
    IN  IF /\ Len(dayRows) > 0
           /\ ~isTimeWithinAvailability(timeString, dayRows)
        THEN Error("Seller is not available at the selected time")
        ELSE NoError

\* the check of the seller's hours in createAppointment: what it throws.  The rows of
\* the weekday are read and compared, the result is logged, nothing is thrown
sellerAvailabilityCheck(avail, data) ==
    LET service == Services[data.serviceId]
        dayOfWeek == getDay(data.scheduledTimeStart)
        timeString == toTimeString(data.scheduledTimeStart)
        dayRows == getSellerAvailabilityForDay(avail, service.sellerId, dayOfWeek)
    IN  IF /\ Len(dayRows) > 0
           /\ ~isTimeWithinAvailability(timeString, dayRows)
        THEN NoError
        ELSE NoError

\* createAppointment on the seller_availability table it reads
createAppointmentOn(avail, appts, hist, buyerId, data) ==
    LET failed == createChecks(appts, data)
        \* reached only when the checks before it passed
        unavailable == IF failed = NoError THEN sellerAvailabilityCheck(avail, data)
                       ELSE NoError
    IN  IF unavailable # NoError THEN Outcome(appts, hist, FALSE, unavailable, <<>>)
        ELSE createAppointment(appts, hist, buyerId, data)

(***************************************************************************)
(* Inputs of the calls                                                     *)
(***************************************************************************)
\* buyerId: the authenticated user
BuyerIds == {"buyer1"}

\* changedBy / cancelledBy: a user, or an id no user row has
ActorIds == {"sellerUserA", "nobody"}

\* serviceId: every service of the catalog, or an id no service row has
ServiceIds == DOMAIN Services \cup {"missing"}

StartTimes == {Hm(0, 9, 0), Hm(0, 9, 30)}

\* ?startTime= of an availability check: half an hour before the 09:00-12:00 window ends
LateStartTimes == {Hm(0, 11, 30)}

\* scheduledTimeEnd is the caller's: right for a 30 or a 60 minute service, or 1 ms late
EndTimes(startTime) ==
    {startTime + 30 * MsPerMinute, startTime + 60 * MsPerMinute, startTime + 60 * MsPerMinute + 1}

Request(serviceId, startTime, endTime) ==
    [serviceId |-> serviceId, scheduledDate |-> DayStart(startTime),
     scheduledTimeStart |-> startTime, scheduledTimeEnd |-> endTime]

\* seller A's service at every start time, the others at the first
CreateInputs ==
    UNION {{Request("s60", st, en) : en \in EndTimes(st)} : st \in StartTimes}
    \cup {Request(sv, Hm(0, 9, 0), en) : sv \in ServiceIds, en \in EndTimes(Hm(0, 9, 0))}

\* the ids a caller may name: every row there is, and one there is not
IdsOf(table) == 1 .. (Len(table) + 1)

TimeOffDates == {Hm(0, 0, 0), Hm(0, 9, 30), Hm(1, 0, 0)}

\* sellerTimeOffValidation: endDate after startDate
TimeOffRanges == {r \in TimeOffDates \X TimeOffDates : r[2] > r[1]}

\* the sellers a user is the owner of
SellersWithUser == {"A", "C"}

\* "HH:MM" of the validator's pattern: the hour with or without its leading zero
T8_00 == <<8, Colon, 0, 0>>
T9_30 == <<9, Colon, 3, 0>>
T09_00 == <<0, 9, Colon, 0, 0>>
T12_00 == <<1, 2, Colon, 0, 0>>

\* sellerAvailabilityValidation: endTime > startTime, as strings
DayWindows == {w \in {<<T09_00, T12_00>>, <<T8_00, T9_30>>} : StrLess(w[1], w[2])}

\* the weekdays of day 0 and day 1
DaysOfWeek == {getDay(Hm(0, 0, 0)), getDay(Hm(1, 0, 0))}

\* new Date(): before the windows of day 0 open, and inside them
Clock == {Hm(0, 7, 0), Hm(0, 9, 10) + 20000}

\* the days a search looks ahead
DaysAhead == {0, 1}

\* ?intervalMinutes=
Intervals == {0, 30, 60}

\* ?date=
Dates == {Hm(0, 0, 0), Hm(1, 0, 0)}

(***************************************************************************)
(* Calls that run to completion                                            *)
(***************************************************************************)
\* the requests that may be in flight together
Procs == 1 .. MaxCalls

Idle == [pc |-> "idle", op |-> "none", who |-> "", data |-> <<>>, id |-> 0,
         to |-> "", notes |-> "", error |-> ""]

\* the sockets the chat server may hold at a time
SocketIds == 1 .. MaxSockets

\* socket.user before the socket authenticated
NoUser == [id |-> "", role |-> ""]

\* a socket slot nobody is connected on
NoSocket == [connected |-> FALSE, user |-> NoUser, authenticate |-> "idle",
             disconnect |-> "idle"]

\* no setWeeklyAvailability call in flight
NoWeekly == [pc |-> "idle", sellerId |-> "", schedule |-> <<>>, pending |-> {},
             rejected |-> FALSE, before |-> <<>>]

Init ==
    /\ appointments = <<>>
    /\ statusHistory = <<>>
    /\ sellerTimeOff = <<>>
    /\ transitions = <<>>
    /\ last = [op |-> "none", error |-> ""]
    /\ calls = [p \in Procs |-> Idle]
    /\ sellerAvailability = <<>>
    /\ weekly = NoWeekly
    /\ messages = <<>>
    /\ categories = <<>>
    /\ sockets = [s \in SocketIds |-> NoSocket]
    /\ sellerChatSettings = <<>>

\* the call that completed, and the message of the error it threw ("" when it returned)
Returned(op, error) == [op |-> op, error |-> error.message]

CreateAppointment(limit, buyerId, data) ==
    LET out == createAppointmentOn(sellerAvailability, appointments, statusHistory,
                                   buyerId, data)
    IN  /\ Len(out.appointments) <= limit
        /\ appointments' = out.appointments
        /\ statusHistory' = out.statusHistory
        /\ transitions' = IF out.ok THEN Append(transitions, 0) ELSE transitions
        /\ last' = Returned("createAppointment", out.error)
        /\ UNCHANGED <<sellerTimeOff, calls, sellerAvailability, weekly, messages,
                       categories, sockets, sellerChatSettings>>

UpdateAppointmentStatus(appointmentId, newStatus, changedBy) ==
    LET out == updateAppointmentStatus(appointments, statusHistory, appointmentId,
                                       newStatus, changedBy, "")
    IN  /\ appointments' = out.appointments
        /\ statusHistory' = out.statusHistory
        /\ transitions' = IF out.ok THEN [transitions EXCEPT ![appointmentId] = @ + 1]
                                    ELSE transitions
        /\ last' = Returned("updateAppointmentStatus", out.error)
        /\ UNCHANGED <<sellerTimeOff, calls, sellerAvailability, weekly, messages,
                       categories, sockets, sellerChatSettings>>

CancelAppointment(appointmentId, cancelledBy) ==
    LET out == cancelAppointment(appointments, statusHistory, appointmentId, cancelledBy, "")
    IN  /\ appointments' = out.appointments
        /\ statusHistory' = out.statusHistory
        /\ transitions' = IF out.ok THEN [transitions EXCEPT ![appointmentId] = @ + 1]
                                    ELSE transitions
        /\ last' = Returned("cancelAppointment", out.error)
        /\ UNCHANGED <<sellerTimeOff, calls, sellerAvailability, weekly, messages,
                       categories, sockets, sellerChatSettings>>

AddTimeOff(sellerId, startDate, endDate) ==
    LET out == addTimeOff(sellerTimeOff, appointments, sellerId, startDate, endDate)
    IN  /\ Len(out.sellerTimeOff) <= MaxTimeOff
        /\ sellerTimeOff' = out.sellerTimeOff
        /\ last' = Returned("addTimeOff", out.error)
        /\ UNCHANGED <<appointments, statusHistory, transitions, calls, sellerAvailability, weekly, messages,
                       categories, sockets, sellerChatSettings>>

RemoveTimeOff(timeOffId, sellerId) ==
    LET out == removeTimeOff(sellerTimeOff, timeOffId, sellerId)
    IN  /\ sellerTimeOff' = out.sellerTimeOff
        /\ last' = Returned("removeTimeOff", out.error)
        /\ UNCHANGED <<appointments, statusHistory, transitions, calls, sellerAvailability, weekly, messages,
                       categories, sockets, sellerChatSettings>>

\* the call that completed, its error message and what it returned
Answered(op, error, data) == [op |-> op, error |-> error.message, data |-> data]

SetDayAvailability(sellerId, dayOfWeek, startTime, endTime, isAvailable) ==
    /\ sellerAvailability' = setSellerAvailability(sellerAvailability, sellerId, dayOfWeek,
                                                   startTime, endTime, isAvailable)
    /\ last' = Returned("setSellerAvailability", NoError)
    /\ UNCHANGED <<appointments, statusHistory, sellerTimeOff, transitions, calls, weekly, messages,
                   categories, sockets, sellerChatSettings>>

GetNextAvailableSlot(serviceId, fromDate, daysAhead, now) ==
    LET out == getNextAvailableSlot(sellerAvailability, sellerTimeOff, appointments,
                                    serviceId, fromDate, daysAhead, now)
    IN  /\ last' = Answered("getNextAvailableSlot", out.error, out.data)
        /\ UNCHANGED <<appointments, statusHistory, sellerTimeOff, transitions, calls,
                       sellerAvailability, weekly, messages,
                       categories, sockets, sellerChatSettings>>

\* returns is FALSE for a call that does not return
GetAvailableTimeSlots(serviceId, date, intervalMinutes) ==
    LET out == getAvailableTimeSlots(sellerAvailability, appointments, serviceId, date,
                                     intervalMinutes)
    IN  /\ last' = [op |-> "getAvailableTimeSlots", error |-> out.error.message,
                    data |-> out.data, returns |-> out.returns]
        /\ UNCHANGED <<appointments, statusHistory, sellerTimeOff, transitions, calls,
                       sellerAvailability, weekly, messages,
                       categories, sockets, sellerChatSettings>>

CheckAvailability(sellerId, date, startTime, endTime) ==
    LET out == isSellerAvailable(sellerAvailability, sellerTimeOff, appointments,
                                 sellerId, date, startTime, endTime)
    IN  /\ last' = [op |-> "isSellerAvailable", error |-> "", data |-> out,
                    request |-> [sellerId |-> sellerId, date |-> date,
                                 startTime |-> startTime, endTime |-> endTime]]
        /\ UNCHANGED <<appointments, statusHistory, sellerTimeOff, transitions, calls,
                       sellerAvailability, weekly, messages,
                       categories, sockets, sellerChatSettings>>

Next ==
    \/ \E buyerId \in BuyerIds, data \in CreateInputs :
          CreateAppointment(MaxAppointments, buyerId, data)
    \/ \E id \in IdsOf(appointments), st \in AppointmentStatus, by \in ActorIds :
          UpdateAppointmentStatus(id, st, by)
    \/ \E id \in IdsOf(appointments), by \in ActorIds : CancelAppointment(id, by)

Spec == Init /\ [][Next]_vars

(***************************************************************************)
(* The seller's calendar: time off added and removed while appointments    *)
(* are booked and moved through their statuses.                            *)
(***************************************************************************)
AvailabilityNext ==
    \/ \E sellerId \in SellersWithUser, r \in TimeOffRanges : AddTimeOff(sellerId, r[1], r[2])
    \/ \E id \in IdsOf(sellerTimeOff), sellerId \in SellersWithUser : RemoveTimeOff(id, sellerId)
    \/ \E buyerId \in BuyerIds, data \in CreateInputs :
          CreateAppointment(MaxBooked, buyerId, data)
    \/ \E id \in IdsOf(appointments), st \in AppointmentStatus, by \in ActorIds :
          UpdateAppointmentStatus(id, st, by)
    \/ \E id \in IdsOf(appointments), by \in ActorIds : CancelAppointment(id, by)

AvailabilitySpec == Init /\ [][AvailabilityNext]_vars

(***************************************************************************)
(* Time off added and removed, with bookings made in between.              *)
(***************************************************************************)
TimeOffNext ==
    \/ \E sellerId \in SellersWithUser, r \in TimeOffRanges : AddTimeOff(sellerId, r[1], r[2])
    \/ \E id \in IdsOf(sellerTimeOff), sellerId \in SellersWithUser : RemoveTimeOff(id, sellerId)
    \/ \E buyerId \in BuyerIds, data \in CreateInputs :
          CreateAppointment(MaxBooked, buyerId, data)

TimeOffSpec == Init /\ [][TimeOffNext]_vars

(***************************************************************************)
(* The slot search over the seller's week: availability set per weekday,   *)
(* time off added, appointments booked and cancelled, and the next free    *)
(* slot asked for.                                                         *)
(***************************************************************************)
SearchNext ==
    \/ \E day \in DaysOfWeek, w \in DayWindows, isAvailable \in BOOLEAN :
          SetDayAvailability("A", day, w[1], w[2], isAvailable)
    \/ \E r \in TimeOffRanges : AddTimeOff("A", r[1], r[2])
    \/ \E buyerId \in BuyerIds, data \in CreateInputs :
          CreateAppointment(MaxBooked, buyerId, data)
    \/ \E id \in IdsOf(appointments), by \in ActorIds : CancelAppointment(id, by)
    \/ \E serviceId \in ServiceIds, now \in Clock, fromDate \in Dates, daysAhead \in DaysAhead :
          \/ GetNextAvailableSlot(serviceId, now, daysAhead, now)
          \/ GetNextAvailableSlot(serviceId, fromDate, daysAhead, now)

SearchSpec == Init /\ [][SearchNext]_vars

(***************************************************************************)
(* The day grid and the direct availability check, over appointments in    *)
(* every status.                                                           *)
(***************************************************************************)
GridNext ==
    \/ \E w \in DayWindows, isAvailable \in BOOLEAN :
          SetDayAvailability("A", getDay(Hm(0, 0, 0)), w[1], w[2], isAvailable)
    \/ \E buyerId \in BuyerIds, data \in CreateInputs :
          CreateAppointment(MaxBooked, buyerId, data)
    \/ \E id \in IdsOf(appointments), st \in AppointmentStatus :
          UpdateAppointmentStatus(id, st, "sellerUserA")
    \/ \E serviceId \in ServiceIds, date \in Dates, intervalMinutes \in Intervals :
          GetAvailableTimeSlots(serviceId, date, intervalMinutes)
    \/ \E sellerId \in SellersWithUser, st \in StartTimes \cup LateStartTimes :
          \E en \in EndTimes(st) : CheckAvailability(sellerId, DayStart(st), st, en)

GridSpec == Init /\ [][GridNext]_vars

(***************************************************************************)
(* setWeeklyAvailability: the controller validates every day, then the     *)
(* service starts one upsert per day and awaits them with Promise.all.     *)
(* The upserts settle one by one, in any order, each on its own; the call  *)
(* is rejected as soon as one of them is.  weekly.before keeps the table   *)
(* as the call found it.                                                   *)
(***************************************************************************)
\* a schedule: for each weekday submitted, its window and its isAvailable flag
WeeklySchedules == [DaysOfWeek -> DayWindows \X BOOLEAN]

BeginWeekly(sellerId, schedule) ==
    /\ weekly.pc # "writing"
    /\ weekly' = [pc |-> "writing", sellerId |-> sellerId, schedule |-> schedule,
                  pending |-> DOMAIN schedule, rejected |-> FALSE,
                  before |-> sellerAvailability]
    /\ UNCHANGED <<appointments, statusHistory, sellerTimeOff, transitions, last, calls,
                   sellerAvailability, messages,
                   categories, sockets, sellerChatSettings>>

\* the upsert of one day is done
UpsertDay(day) ==
    /\ weekly.pc = "writing"
    /\ day \in weekly.pending
    /\ sellerAvailability' =
          setSellerAvailability(sellerAvailability, weekly.sellerId, day,
                                weekly.schedule[day][1][1], weekly.schedule[day][1][2],
                                weekly.schedule[day][2])
    /\ weekly' = [weekly EXCEPT !.pending = @ \ {day}]
    /\ UNCHANGED <<appointments, statusHistory, sellerTimeOff, transitions, last, calls, messages,
                   categories, sockets, sellerChatSettings>>

\* the upsert of one day is rejected by the database: the first rejection is the call's
UpsertFails(day) ==
    /\ weekly.pc = "writing"
    /\ day \in weekly.pending
    /\ weekly' = [weekly EXCEPT !.pending = @ \ {day}, !.rejected = TRUE]
    /\ last' = IF weekly.rejected THEN last
               ELSE Returned("setWeeklyAvailability", Error("Failed to set weekly availability"))
    /\ UNCHANGED <<appointments, statusHistory, sellerTimeOff, transitions, calls,
                   sellerAvailability, messages,
                   categories, sockets, sellerChatSettings>>

\* every upsert has settled
FinishWeekly ==
    /\ weekly.pc = "writing"
    /\ weekly.pending = {}
    /\ weekly' = [weekly EXCEPT !.pc = "done"]
    /\ last' = IF weekly.rejected THEN last ELSE Returned("setWeeklyAvailability", NoError)
    /\ UNCHANGED <<appointments, statusHistory, sellerTimeOff, transitions, calls,
                   sellerAvailability, messages,
                   categories, sockets, sellerChatSettings>>

WeeklyNext ==
    \/ \E schedule \in WeeklySchedules : BeginWeekly("A", schedule)
    \/ \E day \in DaysOfWeek : UpsertDay(day)
    \/ \E day \in DaysOfWeek : UpsertFails(day)
    \/ FinishWeekly

WeeklySpec == Init /\ [][WeeklyNext]_vars

(***************************************************************************)
(* Product chat.  Table product_chats is a catalog here: no operation      *)
(* modelled writes its participants or its isActive flag.  A message body  *)
(* is a sequence of characters.                                            *)
(***************************************************************************)
MaxMessages == 2

\* chat id -> row of table product_chats; buyerId and sellerId are user ids
ProductChats ==
    [c1 |-> [buyerId |-> "buyer1", sellerId |-> "sellerUserA", isActive |-> TRUE],
     c2 |-> [buyerId |-> "buyer1", sellerId |-> "sellerUserC", isActive |-> FALSE]]

Space == " "

RECURSIVE TrimStart(_)
TrimStart(s) == IF s # <<>> /\ Head(s) = Space THEN TrimStart(Tail(s)) ELSE s

RECURSIVE TrimEnd(_)
TrimEnd(s) ==
    IF s # <<>> /\ s[Len(s)] = Space THEN TrimEnd(SubSeq(s, 1, Len(s) - 1)) ELSE s

\* String.prototype.trim
trim(s) == TrimEnd(TrimStart(s))

NoMessage == [id |-> 0, row |-> <<>>]

\* what a chat call hands back: table product_messages as it leaves it, and its
\* return value or error
ChatOutcome(msgs, error, data) == [messages |-> msgs, error |-> error, data |-> data]

\* ProductChatService.sendMessage
sendMessage(msgs, chatId, senderId, message) ==
    IF chatId \notin DOMAIN ProductChats
    THEN ChatOutcome(msgs, Error("Chat not found"), NoMessage)
    ELSE IF ~ProductChats[chatId].isActive
    THEN ChatOutcome(msgs, Error("Chat is no longer active"), NoMessage)
    ELSE IF senderId \notin {ProductChats[chatId].buyerId, ProductChats[chatId].sellerId}
    THEN ChatOutcome(msgs, Error("You are not authorized to send messages in this chat"),
                     NoMessage)
    ELSE LET newMessage == [chatId |-> chatId, senderId |-> senderId,
                            message |-> trim(message), isRead |-> FALSE]
         IN  ChatOutcome(Append(msgs, newMessage), NoError,
                         [id |-> Len(msgs) + 1, row |-> newMessage])

\* ProductChatService.getChatById: reading a chat marks the other party's messages read
getChatById(msgs, chatId, userId) ==
    IF chatId \notin DOMAIN ProductChats
    THEN ChatOutcome(msgs, Error("Chat not found"), NoMessage)
    ELSE IF userId \notin {ProductChats[chatId].buyerId, ProductChats[chatId].sellerId}
    THEN ChatOutcome(msgs, Error("You are not authorized to view this chat"), NoMessage)
    ELSE ChatOutcome([i \in DOMAIN msgs |->
                         IF /\ msgs[i].chatId = chatId
                            /\ msgs[i].senderId # userId
                            /\ ~msgs[i].isRead
                         THEN [msgs[i] EXCEPT !.isRead = TRUE]
                         ELSE msgs[i]],
                     NoError, ProductChats[chatId])

\* what may break after the message is stored: nothing, the database read of the chat,
\* or the emit on the socket server
Faults == {"none", "getChatById", "emit"}

\* the statements of the controller that follow the insert: read the chat to find the
\* recipient, then WebSocketService.emitUnreadCountToUser; thrown tells whether one
\* of them threw
EmitUnreadCountBody(msgs, chatId, senderId, fault) ==
    LET chat == IF fault = "getChatById"
                THEN ChatOutcome(msgs, Error("database"), NoMessage)
                ELSE getChatById(msgs, chatId, senderId)
    IN  [messages |-> chat.messages,
         thrown |-> chat.error # NoError \/ fault = "emit"]

\* as EmitUnreadCount, but without the inner try: what is thrown leaves the statements
EmitUnreadCountUncaught(msgs, chatId, senderId, fault) ==
    EmitUnreadCountBody(msgs, chatId, senderId, fault)

\* the same statements inside the controller's inner try: the catch logs and goes on
EmitUnreadCount(msgs, chatId, senderId, fault) ==
    [EmitUnreadCountBody(msgs, chatId, senderId, fault) EXCEPT !.thrown = FALSE]

\* what a request is answered with
Response(status, error, data, wsError) ==
    [status |-> status, error |-> error.message, data |-> data, wsError |-> wsError]

\* ProductChatController.sendMessage, POST /api/chat/:chatId/send; wsError tells
\* whether the statements after the insert threw
ProductChatController_sendMessage(msgs, chatId, senderId, message, fault) ==
    IF trim(message) = <<>>
    THEN [messages |-> msgs,
          response |-> Response(400, Error("Message content is required"), NoMessage, FALSE)]
    ELSE LET sent == sendMessage(msgs, chatId, senderId, trim(message))
             notice == EmitUnreadCount(sent.messages, chatId, senderId, fault)
             thrown == EmitUnreadCountBody(sent.messages, chatId, senderId, fault).thrown
         IN  IF sent.error # NoError
             THEN [messages |-> sent.messages,
                   response |-> Response(400, sent.error, NoMessage, FALSE)]
             ELSE IF notice.thrown
             THEN [messages |-> notice.messages,
                   response |-> Response(400, Error("Failed to send message"), NoMessage,
                                         thrown)]
             ELSE [messages |-> notice.messages,
                   response |-> Response(201, NoError, sent.data, thrown)]

\* ChatSocketManager.sendNotificationToOfflineUsers: its whole body is one try whose
\* catch logs
sendNotificationToOfflineUsers(msgs, chatId, senderId, fault) ==
    LET chat == IF fault = "getChatById"
                THEN ChatOutcome(msgs, Error("database"), NoMessage)
                ELSE getChatById(msgs, chatId, senderId)
    IN  [messages |-> chat.messages, thrown |-> FALSE,
         failed |-> chat.error # NoError]

\* the send_message handler of a socket; user is "" on a socket that has not
\* authenticated.  emitted is what the sender's socket is sent, room what the
\* product's room is sent
send_message(msgs, user, chatId, message, fault) ==
    IF user = ""
    THEN [messages |-> msgs, emitted |-> {"error"}, room |-> {}, data |-> NoMessage,
          wsError |-> FALSE]
    ELSE LET sent == sendMessage(msgs, chatId, user, message)
             notice == sendNotificationToOfflineUsers(sent.messages, chatId, user, fault)
         IN  IF sent.error # NoError
             THEN [messages |-> sent.messages, emitted |-> {"message_error"}, room |-> {},
                   data |-> NoMessage, wsError |-> FALSE]
             ELSE [messages |-> notice.messages,
                   emitted |-> IF notice.thrown THEN {"message_error"} ELSE {},
                   room |-> {"new_message"}, data |-> sent.data,
                   wsError |-> notice.failed]

ChatIds == DOMAIN ProductChats \cup {"missing"}

Texts == {<<"h">>, <<Space, "h">>, <<Space>>}

HttpSendMessage(chatId, senderId, message, fault) ==
    LET out == ProductChatController_sendMessage(messages, chatId, senderId, message, fault)
    IN  /\ Len(out.messages) <= MaxMessages
        /\ messages' = out.messages
        /\ last' = [op |-> "POST send", error |-> out.response.error,
                    status |-> out.response.status, data |-> out.response.data,
                    wsError |-> out.response.wsError]
        /\ UNCHANGED <<appointments, statusHistory, sellerTimeOff, transitions, calls,
                       sellerAvailability, weekly,
                       categories, sockets, sellerChatSettings>>

SocketSendMessage(user, chatId, message, fault) ==
    LET out == send_message(messages, user, chatId, message, fault)
    IN  /\ Len(out.messages) <= MaxMessages
        /\ messages' = out.messages
        /\ last' = [op |-> "send_message", error |-> "", emitted |-> out.emitted,
                    room |-> out.room, data |-> out.data, wsError |-> out.wsError]
        /\ UNCHANGED <<appointments, statusHistory, sellerTimeOff, transitions, calls,
                       sellerAvailability, weekly,
                       categories, sockets, sellerChatSettings>>

ChatNext ==
    \/ \E chatId \in ChatIds, senderId \in Users, message \in Texts, fault \in Faults :
          HttpSendMessage(chatId, senderId, message, fault)
    \/ \E user \in Users \cup {""}, chatId \in ChatIds, message \in Texts,
          fault \in Faults :
          SocketSendMessage(user, chatId, message, fault)

ChatSpec == Init /\ [][ChatNext]_vars

(***************************************************************************)
(* AppointmentController: the endpoints that take an appointment id.       *)
(* req.user is the authenticated user: its id and its role.                *)
(***************************************************************************)
\* prisma.seller.findUnique({ where: { userId } }): user id -> seller id
SellerOfUser == [sellerUserA |-> "A", sellerUserC |-> "C"]

\* what the controller answers, and the tables as the request leaves them
Reply(appts, hist, ok, status, error) ==
    [appointments |-> appts, statusHistory |-> hist, ok |-> ok, status |-> status,
     error |-> error]

\* GET /api/appointments/:appointmentId
AppointmentController_getAppointmentById(appts, hist, appointmentId, user) ==
    LET found == getAppointmentById(appts, hist, appointmentId)
        appointment == found.data[1]
        hasPermission == \/ appointment.buyerId = user.id
                         \/ appointment.sellerId = user.id
                         \/ user.role = "ADMIN"
    IN  IF ~found.ok
        THEN Reply(appts, hist, FALSE,
                   IF found.error.message = "Appointment not found" THEN 404 ELSE 500,
                   found.error)
        ELSE IF ~hasPermission
        THEN Reply(appts, hist, FALSE, 403,
                   Error("You are not authorized to view this appointment"))
        ELSE Reply(appts, hist, TRUE, 200, NoError)

\* as AppointmentController_updateAppointmentStatus, but every seller passes the
\* permission check
AppointmentController_updateAppointmentStatusAnySeller(appts, hist, appointmentId, user, status) ==
    LET existingAppointment == getAppointmentById(appts, hist, appointmentId)
        hasPermission == user.role \in {"SELLER", "ADMIN"}
        out == updateAppointmentStatus(appts, hist, appointmentId, status, user.id, "")
    IN  IF ~existingAppointment.ok
        THEN Reply(appts, hist, FALSE, 400, existingAppointment.error)
        ELSE IF ~hasPermission
        THEN Reply(appts, hist, FALSE, 403,
                   Error("You are not authorized to update this appointment"))
        ELSE IF ~out.ok
        THEN Reply(out.appointments, out.statusHistory, FALSE, 400, out.error)
        ELSE Reply(out.appointments, out.statusHistory, TRUE, 200, NoError)

\* PUT /api/appointments/:appointmentId/status: every error thrown in the try is
\* answered by the one catch
AppointmentController_updateAppointmentStatus(appts, hist, appointmentId, user, status) ==
    LET existingAppointment == getAppointmentById(appts, hist, appointmentId)
        hasPermission ==
            IF user.role = "SELLER"
            THEN /\ user.id \in DOMAIN SellerOfUser
                 /\ existingAppointment.data[1].sellerId = SellerOfUser[user.id]
            ELSE user.role = "ADMIN"
        out == updateAppointmentStatus(appts, hist, appointmentId, status, user.id, "")
    IN  IF ~existingAppointment.ok
        THEN Reply(appts, hist, FALSE, 400, existingAppointment.error)
        ELSE IF ~hasPermission
        THEN Reply(appts, hist, FALSE, 403,
                   Error("You are not authorized to update this appointment"))
        ELSE IF ~out.ok
        THEN Reply(out.appointments, out.statusHistory, FALSE, 400, out.error)
        ELSE Reply(out.appointments, out.statusHistory, TRUE, 200, NoError)

\* PUT /api/appointments/:appointmentId/cancel
AppointmentController_cancelAppointment(appts, hist, appointmentId, user, reason) ==
    LET existingAppointment == getAppointmentById(appts, hist, appointmentId)
        hasPermission ==
            \/ existingAppointment.data[1].buyerId = user.id
            \/ user.role = "ADMIN"
            \/ /\ user.role = "SELLER"
               /\ user.id \in DOMAIN SellerOfUser
               /\ existingAppointment.data[1].sellerId = SellerOfUser[user.id]
        out == cancelAppointment(appts, hist, appointmentId, user.id, reason)
    IN  IF ~existingAppointment.ok
        THEN Reply(appts, hist, FALSE, 400, existingAppointment.error)
        ELSE IF ~hasPermission
        THEN Reply(appts, hist, FALSE, 403,
                   Error("You are not authorized to cancel this appointment"))
        ELSE IF ~out.ok
        THEN Reply(out.appointments, out.statusHistory, FALSE, 400, out.error)
        ELSE Reply(out.appointments, out.statusHistory, TRUE, 200, NoError)

\* req.user
Requesters == {[id |-> "buyer1", role |-> "BUYER"],
               [id |-> "sellerUserA", role |-> "SELLER"],
               [id |-> "sellerUserC", role |-> "SELLER"],
               [id |-> "admin1", role |-> "ADMIN"]}

\* the request that was answered last: its endpoint, who sent it, the id it named,
\* whether a row had that id when it arrived, and the answer
Responded(op, user, appointmentId, reply) ==
    [op |-> op, user |-> user, error |-> reply.error.message, status |-> reply.status,
     id |-> appointmentId, found |-> appointmentId \in DOMAIN appointments]

HttpGetAppointmentById(appointmentId, user) ==
    LET reply == AppointmentController_getAppointmentById(appointments, statusHistory,
                                                          appointmentId, user)
    IN  /\ last' = Responded("GET appointment", user, appointmentId, reply)
        /\ UNCHANGED <<appointments, statusHistory, sellerTimeOff, transitions, calls,
                       sellerAvailability, weekly, messages,
                       categories, sockets, sellerChatSettings>>

HttpUpdateAppointmentStatus(appointmentId, user, status) ==
    LET reply == AppointmentController_updateAppointmentStatus(
                     appointments, statusHistory, appointmentId, user, status)
    IN  /\ appointments' = reply.appointments
        /\ statusHistory' = reply.statusHistory
        /\ transitions' = IF reply.ok THEN [transitions EXCEPT ![appointmentId] = @ + 1]
                                      ELSE transitions
        /\ last' = Responded("PUT status", user, appointmentId, reply)
        /\ UNCHANGED <<sellerTimeOff, calls, sellerAvailability, weekly, messages,
                       categories, sockets, sellerChatSettings>>

HttpCancelAppointment(appointmentId, user) ==
    LET reply == AppointmentController_cancelAppointment(
                     appointments, statusHistory, appointmentId, user, "")
    IN  /\ appointments' = reply.appointments
        /\ statusHistory' = reply.statusHistory
        /\ transitions' = IF reply.ok THEN [transitions EXCEPT ![appointmentId] = @ + 1]
                                      ELSE transitions
        /\ last' = Responded("PUT cancel", user, appointmentId, reply)
        /\ UNCHANGED <<sellerTimeOff, calls, sellerAvailability, weekly, messages,
                       categories, sockets, sellerChatSettings>>

HttpNext ==
    \/ \E buyerId \in BuyerIds, data \in CreateInputs :
          CreateAppointment(MaxBooked, buyerId, data)
    \/ \E id \in IdsOf(appointments), user \in Requesters :
          HttpGetAppointmentById(id, user)
    \/ \E id \in IdsOf(appointments), user \in Requesters, st \in AppointmentStatus :
          HttpUpdateAppointmentStatus(id, user, st)
    \/ \E id \in IdsOf(appointments), user \in Requesters :
          HttpCancelAppointment(id, user)

HttpSpec == Init /\ [][HttpNext]_vars

\* POST /api/appointments: the route has no role filter; the body is one the validator
\* lets through
AppointmentController_createAppointment(appts, hist, user, data) ==
    LET out == createAppointment(appts, hist, user.id, data)
    IN  IF ~out.ok
        THEN Reply(out.appointments, out.statusHistory, FALSE, 400, out.error)
        ELSE Reply(out.appointments, out.statusHistory, TRUE, 201, NoError)

HttpCreateAppointment(user, data) ==
    LET reply == AppointmentController_createAppointment(appointments, statusHistory,
                                                         user, data)
    IN  /\ Len(reply.appointments) <= MaxBooked
        /\ appointments' = reply.appointments
        /\ statusHistory' = reply.statusHistory
        /\ transitions' = IF reply.ok THEN Append(transitions, 0) ELSE transitions
        /\ last' = Responded("POST appointment", user, Len(appointments) + 1, reply)
        /\ UNCHANGED <<sellerTimeOff, calls, sellerAvailability, weekly, messages,
                       categories, sockets, sellerChatSettings>>

\* seller A's 60 minute service at 09:00, with the right and with a wrong end
BookingInputs == {Request("s60", Hm(0, 9, 0), en) : en \in {Hm(0, 10, 0), Hm(0, 9, 30)}}

\* who sends the create requests: a buyer, and a seller who books at another seller
Bookers == {user \in Requesters : user.id \in {"buyer1", "sellerUserC"}}

\* the appointment endpoints, called by users of every role on one appointment, from
\* its booking to its end
AuthNext ==
    \/ /\ appointments = <<>>
       /\ \E user \in Bookers, data \in BookingInputs : HttpCreateAppointment(user, data)
    \/ \E id \in IdsOf(appointments), user \in Requesters :
          HttpGetAppointmentById(id, user)
    \/ \E id \in IdsOf(appointments), user \in Requesters, st \in AppointmentStatus :
          HttpUpdateAppointmentStatus(id, user, st)
    \/ \E id \in IdsOf(appointments), user \in Requesters :
          HttpCancelAppointment(id, user)

AuthSpec == Init /\ [][AuthNext]_vars

(***************************************************************************)
(* CategoryService.  A row's id is its position; parentId 0 is null, and   *)
(* in a request an absent parentId.                                        *)
(***************************************************************************)
\* name -> its lower case, as the case-insensitive filter compares it
Lower == [Oil |-> "oil", oil |-> "oil", Tyres |-> "tyres"]

\* findFirst({ where: { name: { equals, mode: 'insensitive' }, parentId } }), leaving
\* the row with id except out (0: no row left out)
DuplicateName(cats, name, parentId, except) ==
    \E i \in DOMAIN cats :
        /\ i # except
        /\ Lower[cats[i].name] = Lower[name]
        /\ cats[i].parentId = parentId

CategoryOutcome(cats, error) == [categories |-> cats, error |-> error]

createCategory(cats, name, parentId) ==
    IF parentId # 0 /\ parentId \notin DOMAIN cats
    THEN CategoryOutcome(cats, Error("Parent category not found"))
    ELSE IF DuplicateName(cats, name, parentId, 0)
    THEN CategoryOutcome(cats, Error("Category with this name already exists at this level"))
    ELSE CategoryOutcome(Append(cats, [name |-> name, parentId |-> parentId,
                                       isActive |-> TRUE]),
                         NoError)

updateCategory(cats, categoryId, updateData) ==
    IF categoryId \notin DOMAIN cats
    THEN CategoryOutcome(cats, Error("Category not found"))
    ELSE LET existingCategory == cats[categoryId]
             parentId == IF updateData.parentId # 0 THEN updateData.parentId
                         ELSE existingCategory.parentId
         IN  IF /\ updateData.name # existingCategory.name
                /\ DuplicateName(cats, updateData.name, parentId, categoryId)
             THEN CategoryOutcome(cats, Error("Category with this name already exists at this level"))
             ELSE IF /\ updateData.parentId # 0
                     /\ updateData.parentId # existingCategory.parentId
                     /\ updateData.parentId \notin DOMAIN cats
             THEN CategoryOutcome(cats, Error("Parent category not found"))
             ELSE IF /\ updateData.parentId # 0
                     /\ updateData.parentId # existingCategory.parentId
                     /\ updateData.parentId = categoryId
             THEN CategoryOutcome(cats, Error("Category cannot be its own parent"))
             ELSE CategoryOutcome([cats EXCEPT ![categoryId].name = updateData.name,
                                               ![categoryId].parentId = parentId],
                                  NoError)

\* req.body.name
CategoryNames == DOMAIN Lower

CreateCategory(name, parentId) ==
    LET out == createCategory(categories, name, parentId)
    IN  /\ Len(out.categories) <= MaxCategories
        /\ categories' = out.categories
        /\ last' = Returned("createCategory", out.error)
        /\ UNCHANGED <<appointments, statusHistory, sellerTimeOff, transitions, calls,
                       sellerAvailability, weekly, messages, sockets, sellerChatSettings>>

UpdateCategory(categoryId, name, parentId) ==
    LET out == updateCategory(categories, categoryId,
                              [name |-> name, parentId |-> parentId])
    IN  /\ categories' = out.categories
        /\ last' = Returned("updateCategory", out.error)
        /\ UNCHANGED <<appointments, statusHistory, sellerTimeOff, transitions, calls,
                       sellerAvailability, weekly, messages, sockets, sellerChatSettings>>

CategoryNext ==
    \/ \E name \in CategoryNames, parentId \in {0} \cup IdsOf(categories) :
          CreateCategory(name, parentId)
    \/ \E id \in IdsOf(categories), name \in CategoryNames,
          parentId \in {0} \cup IdsOf(categories) :
          UpdateCategory(id, name, parentId)

CategorySpec == Init /\ [][CategoryNext]_vars

(***************************************************************************)
(* The chat server's sockets and the sellers' presence.  A handler runs    *)
(* up to its await on the database as one step and finishes in a second    *)
(* step, the write; the handlers of other sockets run in between.          *)
(***************************************************************************)
\* a token jwt.verify rejects
InvalidToken == NoUser

\* the tokens a client may send: the payloads (userId, role) of valid ones, and
\* an invalid one
SocketTokens == {u \in Requesters : u.id \in {"buyer1", "sellerUserA"}} \cup {InvalidToken}

\* prisma.sellerChatSettings.upsert({ where: { sellerId }, update: { isOnline },
\* create: { sellerId, isOnline } })
setSellerOnlineStatus(settings, sellerId, isOnline) ==
    [id \in DOMAIN settings \cup {sellerId} |->
        IF id = sellerId THEN isOnline ELSE settings[id]]

\* seller_chat_settings.is_online of a seller; without a row nothing says online
IsOnline(settings, sellerId) ==
    sellerId \in DOMAIN settings /\ settings[sellerId]

\* the handler has a presence write to do: the socket's user is a seller with a
\* seller record
WritesPresence(user) == user.role = "SELLER" /\ user.id \in DOMAIN SellerOfUser

\* the disconnect handler of a socket, up to its await
DisconnectHandler(socket) ==
    [socket EXCEPT !.connected = FALSE,
                   !.disconnect = IF WritesPresence(socket.user) THEN "write"
                                  ELSE "idle"]

\* io.on('connection'): a client connects on a free slot
Connect(s) ==
    /\ ~sockets[s].connected
    /\ sockets[s].authenticate = "idle"
    /\ sockets[s].disconnect = "idle"
    /\ sockets' = [sockets EXCEPT ![s] = [NoSocket EXCEPT !.connected = TRUE]]
    /\ UNCHANGED <<appointments, statusHistory, sellerTimeOff, transitions, last, calls,
                   sellerAvailability, weekly, messages, categories,
                   sellerChatSettings>>

\* socket.on('authenticate'), up to the await of the seller lookup; with an invalid
\* token, to its end: authentication_error and socket.disconnect()
AuthenticateBegin(s, token) ==
    /\ sockets[s].connected
    /\ sockets[s].authenticate = "idle"
    /\ sockets' = [sockets EXCEPT ![s] =
            IF token = InvalidToken THEN DisconnectHandler(@)
            ELSE [@ EXCEPT !.user = token,
                           !.authenticate = IF WritesPresence(token) THEN "write"
                                            ELSE "idle"]]
    /\ UNCHANGED <<appointments, statusHistory, sellerTimeOff, transitions, last, calls,
                   sellerAvailability, weekly, messages, categories,
                   sellerChatSettings>>

\* the rest of the authenticate handler of a seller: setSellerOnlineStatus(seller.id,
\* true) and the authenticated event
AuthenticateWrite(s) ==
    /\ sockets[s].authenticate = "write"
    /\ sellerChatSettings' = setSellerOnlineStatus(sellerChatSettings,
                                                   SellerOfUser[sockets[s].user.id], TRUE)
    /\ sockets' = [sockets EXCEPT ![s].authenticate = "idle"]
    /\ UNCHANGED <<appointments, statusHistory, sellerTimeOff, transitions, last, calls,
                   sellerAvailability, weekly, messages, categories>>

\* socket.on('disconnect'), up to the await of the seller lookup
Disconnect(s) ==
    /\ sockets[s].connected
    /\ sockets' = [sockets EXCEPT ![s] = DisconnectHandler(@)]
    /\ UNCHANGED <<appointments, statusHistory, sellerTimeOff, transitions, last, calls,
                   sellerAvailability, weekly, messages, categories,
                   sellerChatSettings>>

\* the rest of the disconnect handler of a seller: setSellerOnlineStatus(seller.id,
\* false)
DisconnectWrite(s) ==
    /\ sockets[s].disconnect = "write"
    /\ sellerChatSettings' = setSellerOnlineStatus(sellerChatSettings,
                                                   SellerOfUser[sockets[s].user.id], FALSE)
    /\ sockets' = [sockets EXCEPT ![s].disconnect = "idle"]
    /\ UNCHANGED <<appointments, statusHistory, sellerTimeOff, transitions, last, calls,
                   sellerAvailability, weekly, messages, categories>>

PresenceNext ==
    \E s \in SocketIds :
        \/ Connect(s)
        \/ \E token \in SocketTokens : AuthenticateBegin(s, token)
        \/ AuthenticateWrite(s)
        \/ Disconnect(s)
        \/ DisconnectWrite(s)

PresenceSpec == Init /\ [][PresenceNext]_vars

(***************************************************************************)
(* Calls in flight together.  A call gives way at each await: between its  *)
(* checks and its transaction, and between its transaction and the         *)
(* getAppointmentById that builds its return value.  Each request is       *)
(* served once.                                                            *)
(***************************************************************************)
Thrown(call, error) == [call EXCEPT !.pc = "done", !.error = error.message]

\* createAppointment, from its entry to the await of prisma.$transaction
BeginCreate(p, buyerId, data) ==
    LET call == [Idle EXCEPT !.op = "createAppointment", !.who = buyerId, !.data = data]
        failed == createChecks(appointments, data)
    IN  /\ calls[p].pc = "idle"
        /\ calls' = [calls EXCEPT ![p] = IF failed # NoError THEN Thrown(call, failed)
                                         ELSE [call EXCEPT !.pc = "createTransaction"]]
        /\ UNCHANGED <<appointments, statusHistory, sellerTimeOff, transitions, last, sellerAvailability, weekly, messages,
                       categories, sockets, sellerChatSettings>>

\* the transaction of createAppointment, on the tables as they are by now
CommitCreate(p) ==
    LET tx == createTransaction(appointments, statusHistory, calls[p].who, calls[p].data)
    IN  /\ calls[p].pc = "createTransaction"
        /\ Len(tx.appointments) <= MaxAppointments
        /\ appointments' = tx.appointments
        /\ statusHistory' = tx.statusHistory
        /\ transitions' = IF tx.ok THEN Append(transitions, 0) ELSE transitions
        /\ calls' = [calls EXCEPT ![p] = IF tx.ok THEN [@ EXCEPT !.pc = "fetch", !.id = tx.data[1]]
                                         ELSE Thrown(@, tx.error)]
        /\ UNCHANGED <<sellerTimeOff, last, sellerAvailability, weekly, messages,
                       categories, sockets, sellerChatSettings>>

\* updateAppointmentStatus, from its entry to the await of prisma.$transaction
BeginUpdate(p, op, appointmentId, newStatus, changedBy, notes) ==
    LET call == [Idle EXCEPT !.op = op, !.who = changedBy, !.id = appointmentId,
                             !.to = newStatus, !.notes = notes]
        failed == updateChecks(appointments, appointmentId, newStatus)
    IN  /\ calls[p].pc = "idle"
        /\ calls' = [calls EXCEPT ![p] = IF failed # NoError THEN Thrown(call, failed)
                                         ELSE [call EXCEPT !.pc = "updateTransaction"]]
        /\ UNCHANGED <<appointments, statusHistory, sellerTimeOff, transitions, last, sellerAvailability, weekly, messages,
                       categories, sockets, sellerChatSettings>>

\* the transaction of updateAppointmentStatus, on the tables as they are by now
CommitUpdate(p) ==
    LET tx == updateTransaction(appointments, statusHistory, calls[p].id, calls[p].to,
                                calls[p].who, calls[p].notes)
    IN  /\ calls[p].pc = "updateTransaction"
        /\ appointments' = tx.appointments
        /\ statusHistory' = tx.statusHistory
        /\ transitions' = IF tx.ok THEN [transitions EXCEPT ![calls[p].id] = @ + 1]
                                   ELSE transitions
        /\ calls' = [calls EXCEPT ![p] = IF tx.ok THEN [@ EXCEPT !.pc = "fetch"]
                                         ELSE Thrown(@, tx.error)]
        /\ UNCHANGED <<sellerTimeOff, last, sellerAvailability, weekly, messages,
                       categories, sockets, sellerChatSettings>>

\* return await this.getAppointmentById(id)
Fetch(p) ==
    LET out == getAppointmentById(appointments, statusHistory, calls[p].id)
    IN  /\ calls[p].pc = "fetch"
        /\ calls' = [calls EXCEPT ![p] = Thrown(@, out.error)]
        /\ UNCHANGED <<appointments, statusHistory, sellerTimeOff, transitions, last, sellerAvailability, weekly, messages,
                       categories, sockets, sellerChatSettings>>

ConcNext ==
    \E p \in Procs :
        \/ \E buyerId \in BuyerIds, data \in CreateInputs : BeginCreate(p, buyerId, data)
        \/ CommitCreate(p)
        \/ \E id \in IdsOf(appointments), st \in AppointmentStatus, by \in ActorIds :
              BeginUpdate(p, "updateAppointmentStatus", id, st, by, "")
        \/ \E id \in IdsOf(appointments), by \in ActorIds :
              BeginUpdate(p, "cancelAppointment", id, "CANCELLED", by, CancelNotes(""))
        \/ CommitUpdate(p)
        \/ Fetch(p)

ConcSpec == Init /\ [][ConcNext]_vars

(***************************************************************************)
(* Vocabulary of the properties                                            *)
(***************************************************************************)
NonTerminal == {"PENDING", "CONFIRMED", "IN_PROGRESS"}

Terminal == {"COMPLETED", "CANCELLED"}

\* half-open windows [a, b) and [c, d) share an instant
WindowsOverlap(a, b, c, d) == a < d /\ c < b

RowsOverlap(r1, r2) ==
    WindowsOverlap(r1.scheduledTimeStart, r1.scheduledTimeEnd,
                   r2.scheduledTimeStart, r2.scheduledTimeEnd)

IsPrefix(s, t) == Len(s) <= Len(t) /\ SubSeq(t, 1, Len(s)) = s

DurationMessage == "Appointment duration must match the service"

(***************************************************************************)
(* C1  No double booking under serial execution: in every state reached by *)
(* createAppointment, updateAppointmentStatus and cancelAppointment calls  *)
(* that each run to completion, no seller has two distinct appointments    *)
(* with overlapping [start, end) windows that are both PENDING, CONFIRMED  *)
(* or IN_PROGRESS.                                                         *)
(***************************************************************************)
C1_NoDoubleBooking ==
    \A i, j \in DOMAIN appointments :
        ( /\ i # j
          /\ appointments[i].sellerId = appointments[j].sellerId
          /\ appointments[i].status \in NonTerminal
          /\ appointments[j].status \in NonTerminal )
        => ~RowsOverlap(appointments[i], appointments[j])

\* a window was booked again after its first appointment ended, and a third
\* request for it has just been refused
C1_Witness ==
    /\ last = [op |-> "createAppointment", error |-> "The selected time slot is not available"]
    /\ \E i, j \in DOMAIN appointments :
          /\ i # j
          /\ appointments[i].sellerId = appointments[j].sellerId
          /\ RowsOverlap(appointments[i], appointments[j])
          /\ appointments[i].status \in Terminal
          /\ appointments[j].status \in NonTerminal

(***************************************************************************)
(* C3  updateAppointmentStatus succeeds only for the pairs                 *)
(* PENDING->{CONFIRMED,CANCELLED}, CONFIRMED->{IN_PROGRESS,CANCELLED},     *)
(* IN_PROGRESS->{COMPLETED,CANCELLED}; for every other (current,           *)
(* requested) pair, requested = current and any request on a COMPLETED or  *)
(* CANCELLED appointment included, it throws an error naming both states   *)
(* and leaves the stored status as it was.                                 *)
(***************************************************************************)
AllowedPairs ==
    { <<"PENDING", "CONFIRMED">>, <<"PENDING", "CANCELLED">>,
      <<"CONFIRMED", "IN_PROGRESS">>, <<"CONFIRMED", "CANCELLED">>,
      <<"IN_PROGRESS", "COMPLETED">>, <<"IN_PROGRESS", "CANCELLED">> }

C3_OnlyTablePairsSucceed ==
    \A id \in DOMAIN appointments, requested \in AppointmentStatus, by \in ActorIds :
        LET current == appointments[id].status
            out == updateAppointmentStatus(appointments, statusHistory, id, requested, by, "")
        IN  /\ out.ok => <<current, requested>> \in AllowedPairs
            /\ (<<current, requested>> \in AllowedPairs /\ by \in Users) =>
                   (out.ok /\ out.appointments[id].status = requested)
            /\ <<current, requested>> \notin AllowedPairs =>
                   /\ ~out.ok
                   /\ out.error = [message |-> "Cannot change status",
                                   from |-> current, to |-> requested]
                   /\ out.appointments[id].status = current

\* a request on a COMPLETED appointment has just been refused
C3_Witness ==
    /\ last = [op |-> "updateAppointmentStatus", error |-> "Cannot change status"]
    /\ \E id \in DOMAIN appointments : appointments[id].status = "COMPLETED"

(***************************************************************************)
(* C5  Each successful status update writes the new status and appends     *)
(* exactly one history row carrying it, both or neither: an appointment's  *)
(* history has 1 + (successful transitions) rows, its newest row carries   *)
(* the appointment's current status, and no row is ever removed or         *)
(* rewritten.                                                              *)
(***************************************************************************)
C5_HistoryMatchesStatus ==
    /\ DOMAIN statusHistory = DOMAIN appointments
    /\ \A id \in DOMAIN appointments :
          /\ Len(statusHistory[id]) = 1 + transitions[id]
          /\ statusHistory[id][Len(statusHistory[id])].status = appointments[id].status
          /\ \A k \in DOMAIN statusHistory[id] : statusHistory[id][k].appointmentId = id

C5_AppendOnly ==
    \A id \in DOMAIN statusHistory :
        /\ id \in DOMAIN statusHistory'
        /\ IsPrefix(statusHistory[id], statusHistory'[id])
        /\ Len(statusHistory'[id]) <= Len(statusHistory[id]) + 1

C5_StatusHistoryAudit == [](C5_HistoryMatchesStatus) /\ [][C5_AppendOnly]_vars

\* an appointment went through three updates, and a fourth, whose history row
\* cannot be written, has just been rolled back
C5_Witness ==
    /\ last.error = "Foreign key constraint failed"
    /\ \E id \in DOMAIN appointments :
          transitions[id] = 3 /\ appointments[id].status = "COMPLETED"

(***************************************************************************)
(* C6  Every successful createAppointment persists exactly one appointment *)
(* in PENDING and exactly one history row (PENDING, 'Appointment created', *)
(* changedBy the buyer), both or neither; getAppointmentById right after   *)
(* returns the same buyer, the service's seller, the same service and      *)
(* exactly that one history entry.                                         *)
(***************************************************************************)
CreatedRow(id, buyerId) ==
    [appointmentId |-> id, status |-> "PENDING", notes |-> "Appointment created",
     changedBy |-> buyerId]

C6_CreateThenFetch ==
    /\ \A buyerId \in BuyerIds, data \in CreateInputs :
          LET out == createAppointment(appointments, statusHistory, buyerId, data)
              id == Len(appointments) + 1
              fetched == getAppointmentById(out.appointments, out.statusHistory, id)
          IN  IF out.ok
              THEN /\ Len(out.appointments) = id
                   /\ SubSeq(out.appointments, 1, Len(appointments)) = appointments
                   /\ out.appointments[id].status = "PENDING"
                   /\ Len(out.statusHistory) = id
                   /\ SubSeq(out.statusHistory, 1, Len(statusHistory)) = statusHistory
                   /\ out.statusHistory[id] = <<CreatedRow(id, buyerId)>>
                   /\ fetched.ok
                   /\ fetched.data[1].buyerId = buyerId
                   /\ fetched.data[1].sellerId = Services[data.serviceId].sellerId
                   /\ fetched.data[1].serviceId = data.serviceId
                   /\ fetched.data[1].statusHistory = <<CreatedRow(id, buyerId)>>
                   /\ out.data = fetched.data
              ELSE /\ out.appointments = appointments
                   /\ out.statusHistory = statusHistory
    /\ \A id \in DOMAIN appointments :
          /\ id \in DOMAIN statusHistory
          /\ statusHistory[id] # <<>>
          /\ statusHistory[id][1] = CreatedRow(id, appointments[id].buyerId)

\* the second appointment has just been created
C6_Witness ==
    /\ last = [op |-> "createAppointment", error |-> ""]
    /\ Len(appointments) = 2
    /\ appointments[2].status = "PENDING"
    /\ statusHistory[2] = <<CreatedRow(2, appointments[2].buyerId)>>

(***************************************************************************)
(* C7  As amended: creating an appointment whose window length differs     *)
(* from the service's durationMinutes always fails and persists nothing,   *)
(* whatever appointments exist; the error is the duration-mismatch error   *)
(* when the service is active and its seller approved, 'Service not found  *)
(* or is inactive' when the service is inactive, and the seller-not-       *)
(* approved error when the service is active and its seller is not         *)
(* approved.                                                               *)
(***************************************************************************)
WindowMismatch(data) ==
    /\ data.serviceId \in DOMAIN Services
    /\ data.scheduledTimeEnd - data.scheduledTimeStart
          # Services[data.serviceId].durationMinutes * MsPerMinute

C7_MismatchAlwaysFails ==
    \A buyerId \in BuyerIds, data \in CreateInputs :
        WindowMismatch(data) =>
            LET out == createAppointment(appointments, statusHistory, buyerId, data)
                service == Services[data.serviceId]
            IN  /\ ~out.ok
                /\ out.appointments = appointments
                /\ out.statusHistory = statusHistory
                /\ out.error.message =
                      IF ~service.isActive THEN "Service not found or is inactive"
                      ELSE IF ~Sellers[service.sellerId]
                      THEN "This seller is not approved to take appointments"
                      ELSE DurationMessage

\* C7 as first stated: the error is the duration-mismatch error for every service
\* and seller state
C7_AlwaysDurationError ==
    \A buyerId \in BuyerIds, data \in CreateInputs :
        WindowMismatch(data) =>
            createAppointment(appointments, statusHistory, buyerId, data).error.message
                = DurationMessage

\* a request with a wrong window has just been refused while appointments exist
C7_Witness ==
    /\ last = [op |-> "createAppointment", error |-> DurationMessage]
    /\ Len(appointments) = MaxAppointments

(***************************************************************************)
(* C8  All checks precede all writes: a createAppointment call that fails  *)
(* a check (service missing or inactive, seller not approved, duration     *)
(* mismatch, slot conflict) and an updateAppointmentStatus call that fails *)
(* (unknown id, invalid transition) leave the appointment table and the    *)
(* status-history table exactly as they were.                              *)
(***************************************************************************)
C8_FailedCallWritesNothing ==
    (last'.error # "" /\ last'.op \in {"createAppointment", "updateAppointmentStatus",
                                         "cancelAppointment"})
    => (appointments' = appointments /\ statusHistory' = statusHistory)

C8_ChecksPrecedeWrites == [][C8_FailedCallWritesNothing]_vars

\* an update naming an id no appointment has was refused while appointments exist
C8_Witness ==
    /\ last = [op |-> "updateAppointmentStatus", error |-> "Appointment not found"]
    /\ Len(appointments) >= 1

(***************************************************************************)
(* C2  When exactly two createAppointment calls are made, for the same     *)
(* seller and the identical [start, end) window, and both have got past    *)
(* the validation and returned, exactly one has succeeded and the other    *)
(* has failed with the conflict error; and at no point are two             *)
(* appointments of one seller for the identical window both there in a     *)
(* non-terminal status.                                                    *)
(***************************************************************************)
SlotMessage == "The selected time slot is not available"

\* request p was a createAppointment that got as far as the conflict check, and is over
CreateDecided(p) ==
    /\ calls[p].pc = "done"
    /\ calls[p].op = "createAppointment"
    /\ calls[p].error \in {"", SlotMessage}

SameSellerAndWindow(d1, d2) ==
    /\ Services[d1.serviceId].sellerId = Services[d2.serviceId].sellerId
    /\ d1.scheduledTimeStart = d2.scheduledTimeStart
    /\ d1.scheduledTimeEnd = d2.scheduledTimeEnd

C2_ExactlyOneCreateSucceeds ==
    /\ \A p, q \in Procs :
          ( /\ p # q
            /\ CreateDecided(p)
            /\ CreateDecided(q)
            /\ SameSellerAndWindow(calls[p].data, calls[q].data)
            /\ \A r \in Procs \ {p, q} : calls[r].pc = "idle" )
          => ( /\ calls[p].error = "" \/ calls[q].error = ""
               /\ calls[p].error = SlotMessage \/ calls[q].error = SlotMessage )
    /\ \A i, j \in DOMAIN appointments :
          ( /\ i # j
            /\ appointments[i].sellerId = appointments[j].sellerId
            /\ appointments[i].scheduledTimeStart = appointments[j].scheduledTimeStart
            /\ appointments[i].scheduledTimeEnd = appointments[j].scheduledTimeEnd )
          => ~(appointments[i].status \in NonTerminal /\ appointments[j].status \in NonTerminal)

(***************************************************************************)
(* C4  Terminal states are absorbing: once an appointment's stored status  *)
(* is COMPLETED or CANCELLED it never changes again, for every             *)
(* interleaving of updateAppointmentStatus and cancelAppointment calls on  *)
(* that appointment.                                                       *)
(***************************************************************************)
C4_TerminalStaysTerminal ==
    \A id \in DOMAIN appointments :
        appointments[id].status \in Terminal =>
            appointments'[id].status = appointments[id].status

C4_TerminalAbsorbing == [][C4_TerminalStaysTerminal]_vars

(***************************************************************************)
(* C9  In every reachable state, after any sequence of addTimeOff,         *)
(* removeTimeOff, createAppointment and status-update calls, no active     *)
(* time-off range of a seller intersects a non-terminal appointment of     *)
(* that seller.                                                            *)
(***************************************************************************)
C9_NoTimeOffOverNonTerminal ==
    \A t \in DOMAIN sellerTimeOff, a \in DOMAIN appointments :
        ( /\ sellerTimeOff[t].isActive
          /\ sellerTimeOff[t].sellerId = appointments[a].sellerId
          /\ appointments[a].status \in NonTerminal )
        => ~WindowsOverlap(sellerTimeOff[t].startDate, sellerTimeOff[t].endDate,
                           appointments[a].scheduledTimeStart, appointments[a].scheduledTimeEnd)

(***************************************************************************)
(* C10  addTimeOff fails with the overlap error exactly when the requested *)
(* range overlaps (as half-open ranges) an active time-off of the same     *)
(* seller, so no two active time-off ranges of one seller ever overlap; a  *)
(* removed time-off does not block a new one, and once inactive a row      *)
(* stays inactive and keeps its range.                                     *)
(***************************************************************************)
TimeOffMessage == "Time off period overlaps with existing time off"

ActiveOverlap(sellerId, startDate, endDate) ==
    \E t \in DOMAIN sellerTimeOff :
        /\ sellerTimeOff[t].isActive
        /\ sellerTimeOff[t].sellerId = sellerId
        /\ WindowsOverlap(sellerTimeOff[t].startDate, sellerTimeOff[t].endDate, startDate, endDate)

C10_ActiveRangesDisjoint ==
    \A t, u \in DOMAIN sellerTimeOff :
        ( /\ t # u
          /\ sellerTimeOff[t].isActive
          /\ sellerTimeOff[u].isActive
          /\ sellerTimeOff[t].sellerId = sellerTimeOff[u].sellerId )
        => ~WindowsOverlap(sellerTimeOff[t].startDate, sellerTimeOff[t].endDate,
                           sellerTimeOff[u].startDate, sellerTimeOff[u].endDate)

C10_FailsExactlyOnActiveOverlap ==
    \A sellerId \in SellersWithUser, r \in TimeOffRanges :
        LET out == addTimeOff(sellerTimeOff, appointments, sellerId, r[1], r[2])
        IN  /\ ActiveOverlap(sellerId, r[1], r[2]) <=> out.error.message = TimeOffMessage
            /\ out.error.message # "" => out.sellerTimeOff = sellerTimeOff

C10_NeverReactivated ==
    \A t \in DOMAIN sellerTimeOff :
        /\ t \in DOMAIN sellerTimeOff'
        /\ sellerTimeOff'[t] \in {sellerTimeOff[t], [sellerTimeOff[t] EXCEPT !.isActive = FALSE]}

C10_TimeOffNeverOverlaps ==
    /\ [](C10_ActiveRangesDisjoint /\ C10_FailsExactlyOnActiveOverlap)
    /\ [][C10_NeverReactivated]_vars

\* a new time off was accepted over a removed one, next to an active one it only touches
C10_Witness ==
    /\ last = [op |-> "addTimeOff", error |-> ""]
    /\ \E t, u \in DOMAIN sellerTimeOff :
          /\ t < u
          /\ ~sellerTimeOff[t].isActive
          /\ sellerTimeOff[u].isActive
          /\ sellerTimeOff[t].sellerId = sellerTimeOff[u].sellerId
          /\ WindowsOverlap(sellerTimeOff[t].startDate, sellerTimeOff[t].endDate,
                            sellerTimeOff[u].startDate, sellerTimeOff[u].endDate)

(***************************************************************************)
(* C11  addTimeOff fails, creating no time-off row, whenever some PENDING  *)
(* or CONFIRMED appointment of the seller has its scheduled [start, end)   *)
(* window inside the requested [startDate, endDate] range, whatever the    *)
(* time of day at which the range starts.                                  *)
(***************************************************************************)
BookedInside(sellerId, startDate, endDate) ==
    \E a \in DOMAIN appointments :
        /\ appointments[a].sellerId = sellerId
        /\ appointments[a].status \in {"PENDING", "CONFIRMED"}
        /\ appointments[a].scheduledTimeStart >= startDate
        /\ appointments[a].scheduledTimeEnd <= endDate

C11_TimeOffOverBookingFails ==
    \A sellerId \in SellersWithUser, r \in TimeOffRanges :
        BookedInside(sellerId, r[1], r[2]) =>
            LET out == addTimeOff(sellerTimeOff, appointments, sellerId, r[1], r[2])
            IN  /\ out.error.message # ""
                /\ out.sellerTimeOff = sellerTimeOff

(***************************************************************************)
(* C12  Every slot returned by getNextAvailableSlot ends at or before the  *)
(* recurring-availability end time of its weekday and, when the slot lies  *)
(* on the current day, starts at or after the current time, on a           *)
(* 30-minute boundary.                                                     *)
(***************************************************************************)
\* the searches a caller may make: from now, or from the start of a day
Searches == {q \in (DOMAIN Services) \X (Clock \cup Dates) \X DaysAhead \X Clock :
                q[2] \in Dates \cup {q[4]}}

SlotOf(q) ==
    getNextAvailableSlot(sellerAvailability, sellerTimeOff, appointments,
                         q[1], q[2], q[3], q[4]).data

\* the instant at which the seller's window of the day of t ends
WindowEnd(sellerId, t) ==
    LET to == SplitTime(sellerAvailability[<<sellerId, getDay(t)>>].endTime)
    IN  DayStart(t) + Hm(0, to[1], to[2])

C12_SlotInWindowNotPastOnGrid ==
    \A q \in Searches :
        LET slot == SlotOf(q)
            sellerId == Services[q[1]].sellerId
        IN  slot.found =>
                /\ <<sellerId, getDay(slot.startTime)>> \in DOMAIN sellerAvailability
                /\ slot.endTime <= WindowEnd(sellerId, slot.startTime)
                /\ DayStart(slot.startTime) = DayStart(q[4]) =>
                      /\ slot.startTime >= q[4]
                      /\ slot.startTime % (30 * MsPerMinute) = 0

(***************************************************************************)
(* C13  getNextAvailableSlot returns the earliest free probe: over the     *)
(* days from fromDate to fromDate + daysAhead in increasing order, with    *)
(* probes at window start + k * 30 minutes, the result is the first probe  *)
(* [s, s + durationMinutes) that fits the window and conflicts with no     *)
(* non-terminal appointment, and it is null exactly when there is no such  *)
(* probe in the horizon.  Stated for a seller with no active time off,     *)
(* and with the probes of the current day counted from the current time.   *)
(***************************************************************************)
\* the starts window start + k * 30 minutes of the probes that fit the seller's window
\* of the day of t
ProbesOfDay(service, t) ==
    LET key == <<service.sellerId, getDay(t)>>
        from == SplitTime(sellerAvailability[key].startTime)
        windowStart == DayStart(t) + Hm(0, from[1], from[2])
    IN  IF key \in DOMAIN sellerAvailability /\ sellerAvailability[key].isAvailable
        THEN {s \in {windowStart + k * 30 * MsPerMinute : k \in 0 .. (MsPerDay \div (30 * MsPerMinute))} :
                 s + service.durationMinutes * MsPerMinute <= WindowEnd(service.sellerId, t)}
        ELSE {}

FreeProbes(q) ==
    LET service == Services[q[1]]
        days == {DayStart(q[2]) + j * MsPerDay : j \in 0 .. q[3]}
    IN  {s \in UNION {ProbesOfDay(service, t) : t \in days} :
            /\ s >= q[4]
            /\ \A a \in DOMAIN appointments :
                  ( /\ appointments[a].sellerId = service.sellerId
                    /\ appointments[a].status \in NonTerminal )
                  => ~WindowsOverlap(s, s + service.durationMinutes * MsPerMinute,
                                     appointments[a].scheduledTimeStart,
                                     appointments[a].scheduledTimeEnd)}

Earliest(S) == CHOOSE s \in S : \A t \in S : s <= t

C13_EarliestFreeProbe ==
    \A q \in Searches :
        (\A t \in DOMAIN sellerTimeOff :
            ~(sellerTimeOff[t].isActive /\ sellerTimeOff[t].sellerId = Services[q[1]].sellerId))
        => LET slot == SlotOf(q)
               free == FreeProbes(q)
           IN  IF free = {} THEN ~slot.found
               ELSE /\ slot.found
                    /\ slot.startTime = Earliest(free)
                    /\ slot.endTime = slot.startTime + Services[q[1]].durationMinutes * MsPerMinute

(***************************************************************************)
(* C14  getNextAvailableSlot never returns a slot whose [start, end) lies  *)
(* inside an active time-off range of the seller, whatever the time of day *)
(* at which the time off starts or ends.                                   *)
(***************************************************************************)
C14_NoSlotInsideTimeOff ==
    \A q \in Searches :
        LET slot == SlotOf(q)
        IN  slot.found =>
                ~\E t \in DOMAIN sellerTimeOff :
                    /\ sellerTimeOff[t].isActive
                    /\ sellerTimeOff[t].sellerId = Services[q[1]].sellerId
                    /\ sellerTimeOff[t].startDate <= slot.startTime
                    /\ slot.endTime <= sellerTimeOff[t].endDate

(***************************************************************************)
(* C15  The conflict test of checkTimeSlotAvailability and that of         *)
(* isSellerAvailable are the half-open overlap rule: for every candidate   *)
(* [a, b) with a < b and every stored appointment [c, d) of the same       *)
(* seller, the appointment counts as a conflict iff a < d and c < b and    *)
(* its status is PENDING, CONFIRMED or IN_PROGRESS; windows that only      *)
(* touch do not conflict; and wherever isSellerAvailable gets as far as    *)
(* its conflict test it answers as checkTimeSlotAvailability does.         *)
(***************************************************************************)
\* candidates [a, b) with a < b, around the windows that get booked
Candidates == {Hm(0, 8, 30) + k * 30 * MsPerMinute : k \in 0 .. 4} \X {30, 60, 90}

HalfOpenConflict(row, sellerId, a, b) ==
    /\ row.sellerId = sellerId
    /\ row.status \in NonTerminal
    /\ a < row.scheduledTimeEnd
    /\ row.scheduledTimeStart < b

NoRowOn(sellerId, t) == <<sellerId, getDay(t)>> \notin DOMAIN sellerAvailability

Bookable(data) ==
    /\ data.serviceId \in DOMAIN Services
    /\ Services[data.serviceId].isActive
    /\ Sellers[Services[data.serviceId].sellerId]
    /\ data.scheduledTimeEnd =
          data.scheduledTimeStart + Services[data.serviceId].durationMinutes * MsPerMinute
    /\ \A i \in DOMAIN appointments :
          ~HalfOpenConflict(appointments[i], Services[data.serviceId].sellerId,
                            data.scheduledTimeStart, data.scheduledTimeEnd)

C16_NoRowEmptyGridYetBookable ==
    /\ \A serviceId \in DOMAIN Services, date \in Dates, intervalMinutes \in Intervals :
          NoRowOn(Services[serviceId].sellerId, date) =>
              LET out == getAvailableTimeSlots(sellerAvailability, appointments, serviceId,
                                               date, intervalMinutes)
              IN  out.returns /\ out.error = NoError /\ out.data = <<>>
    /\ \A buyerId \in BuyerIds, data \in CreateInputs :
          (Bookable(data) /\ NoRowOn(Services[data.serviceId].sellerId, data.scheduledTimeStart))
          => LET out == createAppointment(appointments, statusHistory, buyerId, data)
             IN  /\ out.ok
                 /\ Len(out.appointments) = Len(appointments) + 1
                 /\ out.appointments[Len(out.appointments)].status = "PENDING"

\* the grid of day 0 was asked for and came back empty, with an appointment of seller A
\* booked on that day and no availability row of A for its weekday
C16_Witness ==
    /\ last.op = "getAvailableTimeSlots"
    /\ last.error = ""
    /\ last.returns
    /\ last.data = <<>>
    /\ NoRowOn("A", Hm(0, 0, 0))
    /\ \E i \in DOMAIN appointments :
          /\ appointments[i].sellerId = "A"
          /\ appointments[i].status = "PENDING"
          /\ DayStart(appointments[i].scheduledTimeStart) = Hm(0, 0, 0)

(***************************************************************************)
(* C17  getAvailableTimeSlots returns the full day grid: for the available *)
(* recurring window of the weekday, one entry for every probe start =      *)
(* window start + k * intervalMinutes whose end (start + service duration) *)
(* is at or before the window end, in increasing order, each of exactly    *)
(* the service duration and flagged isAvailable iff it conflicts with no   *)
(* non-terminal appointment of the seller; an occupied probe is reported,  *)
(* not omitted.                                                            *)
(***************************************************************************)
\* the probe starts of the claim, for the window of the seller on the day of date
GridStarts(service, date, intervalMinutes) ==
    LET key == <<service.sellerId, getDay(date)>>
        from == SplitTime(sellerAvailability[key].startTime)
        windowStart == DayStart(date) + Hm(0, from[1], from[2])
        last_k == IF intervalMinutes > 0 THEN (24 * 60) \div intervalMinutes ELSE 0
    IN  IF key \in DOMAIN sellerAvailability /\ sellerAvailability[key].isAvailable
        THEN {t \in {windowStart + k * intervalMinutes * MsPerMinute : k \in 0 .. last_k} :
                 t + service.durationMinutes * MsPerMinute <= WindowEnd(service.sellerId, date)}
        ELSE {}

\* the entry of the claim for the probe that starts at t
GridEntry(service, t) ==
    [startTime |-> toTimeString(t),
     endTime |-> toTimeString(t + service.durationMinutes * MsPerMinute),
     isAvailable |-> \A i \in DOMAIN appointments :
                        ~HalfOpenConflict(appointments[i], service.sellerId, t,
                                          t + service.durationMinutes * MsPerMinute)]

C17_FullDayGrid ==
    \A serviceId \in DOMAIN Services, date \in Dates, intervalMinutes \in Intervals :
        LET service == Services[serviceId]
            out == getAvailableTimeSlots(sellerAvailability, appointments, serviceId, date,
                                         intervalMinutes)
            starts == GridStarts(service, date, intervalMinutes)
        IN  /\ out.returns
            /\ out.error = NoError
            /\ Len(out.data) = Cardinality(starts)
            /\ \A i \in DOMAIN out.data :
                  \E t \in starts :
                      /\ Cardinality({u \in starts : u < t}) = i - 1
                      /\ out.data[i] = GridEntry(service, t)

(***************************************************************************)
(* C18  setWeeklyAvailability applies the submitted schedule as one atomic *)
(* batch: if the write for any day fails, no day's availability row is     *)
(* created or changed: the table is as the call found it.                  *)
(***************************************************************************)
C18_WeeklyAllOrNothing ==
    weekly.rejected => sellerAvailability = weekly.before

(***************************************************************************)
(* C19  A chat message that was persisted stays persisted and the sender's *)
(* request still succeeds when the follow-up notification step throws: the *)
(* HTTP send path answers 201 with the message, the WebSocket send path    *)
(* sends the sender no error, and no earlier message is removed or         *)
(* rewritten, whatever fails in the unread-count emit or in the offline    *)
(* notification.                                                           *)
(***************************************************************************)
\* a send stored a message in this step
Persisted == Len(messages') = Len(messages) + 1

\* the rows that were stored are still there, whoever has read them since
StaysPersisted ==
    /\ Len(messages') >= Len(messages)
    /\ \A i \in DOMAIN messages :
          [messages'[i] EXCEPT !.isRead = FALSE] = [messages[i] EXCEPT !.isRead = FALSE]

SendSucceeded ==
    /\ last'.data.id = Len(messages')
    /\ messages'[last'.data.id] = last'.data.row
    /\ last'.op = "POST send" => last'.status = 201 /\ last'.error = ""
    /\ last'.op = "send_message" => last'.emitted = {} /\ last'.room = {"new_message"}

C19_SendSurvivesNotificationFailure ==
    [][StaysPersisted /\ (Persisted => SendSucceeded)]_vars

\* C19: an HTTP send was answered 201 with the stored message though the statements
\* after the insert threw
C19_Witness ==
    /\ last.op = "POST send"
    /\ last.wsError
    /\ last.status = 201
    /\ last.data.id \in DOMAIN messages
    /\ messages[last.data.id] = last.data.row

\* C19: a socket send stored its message and sent the sender no error though the
\* offline notification failed
C19_SocketWitness ==
    /\ last.op = "send_message"
    /\ last.wsError
    /\ last.emitted = {}
    /\ last.data.id \in DOMAIN messages
    /\ messages[last.data.id] = last.data.row

(***************************************************************************)
(* C20  A request that names an appointment id no row has is answered 404  *)
(* by every appointment endpoint that takes an id (get by id, update       *)
(* status, cancel), and it writes nothing.                                 *)
(***************************************************************************)
IdEndpoints == {"GET appointment", "PUT status", "PUT cancel"}

C20_MissingIdIs404 ==
    [][(last'.op \in IdEndpoints /\ ~last'.found) =>
          /\ last'.status = 404
          /\ UNCHANGED <<appointments, statusHistory>>]_vars

(***************************************************************************)
(* C21  Through the HTTP interface only an admin or the seller who owns    *)
(* the appointment changes its status with the update-status endpoint, and *)
(* the only change a buyer causes is the cancellation of an appointment    *)
(* of their own; every other caller is answered 403 and the appointment    *)
(* and its history stay as they were.                                      *)
(***************************************************************************)
OwnsAsSeller(user, appointment) ==
    /\ user.role = "SELLER"
    /\ user.id \in DOMAIN SellerOfUser
    /\ SellerOfUser[user.id] = appointment.sellerId

AdminOrOwner(user, appointment) == user.role = "ADMIN" \/ OwnsAsSeller(user, appointment)

\* the request answered in this step named an appointment there is
OnAppointment(ops) == last'.op \in ops /\ last'.found

Refused == last'.status = 403 /\ UNCHANGED <<appointments, statusHistory>>

C21_OnlyPartiesChangeStatus ==
    [][/\ OnAppointment({"PUT status"})
          /\ ~AdminOrOwner(last'.user, appointments[last'.id])
          => Refused
       /\ OnAppointment({"PUT cancel"})
          /\ ~AdminOrOwner(last'.user, appointments[last'.id])
          /\ appointments[last'.id].buyerId # last'.user.id
          => Refused
       /\ OnAppointment({"GET appointment", "PUT status", "PUT cancel"})
          /\ ~AdminOrOwner(last'.user, appointments[last'.id])
          /\ <<appointments, statusHistory>>' # <<appointments, statusHistory>>
          => /\ last'.op = "PUT cancel"
             /\ appointments[last'.id].buyerId = last'.user.id
             /\ appointments' = [appointments EXCEPT ![last'.id].status = "CANCELLED"]
             /\ appointments[last'.id].status # "CANCELLED"]_vars

\* C21: the buyer of an appointment asked for a status update and was answered 403
C21_Witness ==
    /\ last.op = "PUT status"
    /\ last.found
    /\ last.status = 403
    /\ last.id \in DOMAIN appointments
    /\ appointments[last.id].buyerId = last.user.id

(***************************************************************************)
(* C22  Only users with role BUYER create appointments: a create request   *)
(* of an authenticated SELLER or ADMIN is rejected and stores no           *)
(* appointment.                                                            *)
(***************************************************************************)
C22_OnlyBuyersCreate ==
    [][(last'.op = "POST appointment" /\ last'.user.role # "BUYER") =>
          /\ last'.status # 201
          /\ UNCHANGED <<appointments, statusHistory>>]_vars

(***************************************************************************)
(* C23  A terminal appointment frees its window: once an appointment is    *)
(* CANCELLED or COMPLETED and no other appointment in the way, a           *)
(* createAppointment call for its service and its window succeeds, the     *)
(* day grid of getAvailableTimeSlots lists that window as available, and   *)
(* getNextAvailableSlot returns that window wherever it would return it    *)
(* with no appointment booked at all.                                      *)
(***************************************************************************)
\* the appointments that are over and whose window no other appointment blocks
Freed ==
    {i \in DOMAIN appointments :
        /\ appointments[i].status \in Terminal
        /\ \A j \in DOMAIN appointments :
              ~HalfOpenConflict(appointments[j], appointments[i].sellerId,
                                appointments[i].scheduledTimeStart,
                                appointments[i].scheduledTimeEnd)}

\* the grid entry of the window of appointment a
EntryOf(a) ==
    [startTime |-> toTimeString(a.scheduledTimeStart),
     endTime |-> toTimeString(a.scheduledTimeEnd), isAvailable |-> TRUE]

TakenEntryOf(a) == [EntryOf(a) EXCEPT !.isAvailable = FALSE]

SameWindow(slot, a) ==
    /\ slot.found
    /\ slot.startTime = a.scheduledTimeStart
    /\ slot.endTime = a.scheduledTimeEnd

C23_TerminalFreesWindow ==
    \A i \in Freed :
        LET a == appointments[i]
        IN  /\ createAppointment(appointments, statusHistory, a.buyerId,
                                 Request(a.serviceId, a.scheduledTimeStart,
                                         a.scheduledTimeEnd)).ok
            /\ \A intervalMinutes \in Intervals :
                  LET out == getAvailableTimeSlots(sellerAvailability, appointments,
                                                   a.serviceId, a.scheduledDate,
                                                   intervalMinutes)
                  IN  out.returns =>
                          \A k \in DOMAIN out.data : out.data[k] # TakenEntryOf(a)
            /\ \A now \in Clock, daysAhead \in DaysAhead :
                  LET unbooked == getNextAvailableSlot(sellerAvailability, sellerTimeOff,
                                                       <<>>, a.serviceId, a.scheduledDate,
                                                       daysAhead, now).data
                      slot == getNextAvailableSlot(sellerAvailability, sellerTimeOff,
                                                   appointments, a.serviceId,
                                                   a.scheduledDate, daysAhead, now).data
                  IN  SameWindow(unbooked, a) => SameWindow(slot, a)

\* C23: an appointment is over, the day grid was asked for and lists its window as
\* available, and a search from the morning of its day returns its window
C23_Witness ==
    /\ last.op = "getAvailableTimeSlots"
    /\ last.returns
    /\ \E i \in Freed :
          /\ \E k \in DOMAIN last.data : last.data[k] = EntryOf(appointments[i])
          /\ SameWindow(getNextAvailableSlot(sellerAvailability, sellerTimeOff,
                                             appointments, appointments[i].serviceId,
                                             appointments[i].scheduledDate, 0,
                                             Hm(0, 7, 0)).data,
                        appointments[i])

(***************************************************************************)
(* C24  getAvailableTimeSlots terminates with a finite list for every      *)
(* intervalMinutes the endpoint passes on, 0 included, and every           *)
(* availability window.                                                    *)
(***************************************************************************)
C24_GridTerminates ==
    last.op = "getAvailableTimeSlots" => last.returns

(***************************************************************************)
(* C25  isSellerAvailable answers available only if the whole requested    *)
(* [startTime, endTime) lies inside the seller's window of that weekday: a *)
(* request that starts inside the window and ends after the window's end   *)
(* is answered unavailable.                                                *)
(***************************************************************************)
C25_WholeRequestInsideWindow ==
    (last.op = "isSellerAvailable" /\ last.data.available) =>
        /\ <<last.request.sellerId, getDay(last.request.date)>> \in DOMAIN sellerAvailability
        /\ last.request.endTime <= WindowEnd(last.request.sellerId, last.request.date)

(***************************************************************************)
(* C26  The outcome of createAppointment does not depend on the seller's   *)
(* recurring availability: on two tables that differ only in their         *)
(* seller_availability rows (none, a row that covers the requested start,  *)
(* a row that does not, a row marked unavailable) the same request is      *)
(* accepted in both or rejected in both with the same error.               *)
(***************************************************************************)
\* seller A's rows for the weekday of day 0: none, or one of every kind
AvailabilityTables ==
    {<<>>} \cup {setSellerAvailability(<<>>, "A", getDay(Hm(0, 0, 0)), w[1], w[2], b) :
                    w \in DayWindows, b \in BOOLEAN}

C26_CreateIgnoresAvailability ==
    \A buyerId \in BuyerIds, data \in CreateInputs, other \in AvailabilityTables :
        createAppointmentOn(sellerAvailability, appointments, statusHistory, buyerId, data)
            = createAppointmentOn(other, appointments, statusHistory, buyerId, data)

\* C26: an appointment was booked at a start that the seller's row of that weekday
\* does not cover
C26_Witness ==
    /\ last.op = "createAppointment"
    /\ last.error = ""
    /\ appointments # <<>>
    /\ LET a == appointments[Len(appointments)]
           rows == getSellerAvailabilityForDay(sellerAvailability, a.sellerId,
                                               getDay(a.scheduledTimeStart))
       IN  /\ Len(rows) > 0
           /\ ~isTimeWithinAvailability(toTimeString(a.scheduledTimeStart), rows)

(***************************************************************************)
(* C27  Fetching an appointment by id through the HTTP interface succeeds  *)
(* for exactly its parties and the admins: its buyer, the seller who owns  *)
(* it (by the seller profile of the calling user) and every admin are      *)
(* answered 200, every other authenticated user 403.                       *)
(***************************************************************************)
PartyOrAdmin(user, appointment) ==
    \/ appointment.buyerId = user.id
    \/ AdminOrOwner(user, appointment)

C27_GetByIdForPartiesAndAdmins ==
    (last.op = "GET appointment" /\ last.found) =>
        last.status = IF PartyOrAdmin(last.user, appointments[last.id]) THEN 200 ELSE 403

(***************************************************************************)
(* C29  Sending a chat message changes no read flag: after a successful    *)
(* send through the HTTP endpoint or the send_message event, isRead of     *)
(* every message that existed before the call is what it was.              *)
(***************************************************************************)
C29_SendKeepsReadFlags ==
    [][(last'.op \in {"POST send", "send_message"} /\ Persisted) =>
          \A i \in DOMAIN messages : messages'[i].isRead = messages[i].isRead]_vars

(***************************************************************************)
(* C28  The category parent relation stays a forest: after any sequence of *)
(* createCategory and updateCategory calls, following the parentId links   *)
(* from any category reaches a root (parentId null) in finitely many       *)
(* steps: there is no cycle of any length.                                 *)
(***************************************************************************)
RECURSIVE ReachesRoot(_, _)
ReachesRoot(id, fuel) ==
    IF id = 0 THEN TRUE
    ELSE IF fuel = 0 THEN FALSE
    ELSE ReachesRoot(categories[id].parentId, fuel - 1)

C28_CategoriesAreForest ==
    \A id \in DOMAIN categories : ReachesRoot(id, Len(categories))

(***************************************************************************)
(* C30  Seller presence follows the connections: whenever no authenticate  *)
(* or disconnect handler is in progress, a seller's stored isOnline is     *)
(* true exactly when at least one authenticated socket of that seller is   *)
(* connected.                                                              *)
(***************************************************************************)
HandlersIdle ==
    \A s \in SocketIds :
        sockets[s].authenticate = "idle" /\ sockets[s].disconnect = "idle"

HasConnectedSocket(userId) ==
    \E s \in SocketIds : sockets[s].connected /\ sockets[s].user.id = userId

C30_PresenceFollowsConnections ==
    HandlersIdle =>
        \A userId \in DOMAIN SellerOfUser :
            IsOnline(sellerChatSettings, SellerOfUser[userId])
                <=> HasConnectedSocket(userId)

====
